---- MODULE Spec2Model ----
(***************************************************************************)
(* Diagnostic aggregation engine of rust-enhanced (src/rust/messages.py):  *)
(* the per-window message store, the message tree builder, the batcher and *)
(* cross-linker, the sort pass and the next/prev navigation cursor.        *)
(***************************************************************************)
EXTENDS Integers, Sequences, FiniteSets, TLC

VARIABLES
    WINDOW_MESSAGES,  \* the entry of the one window in the global table
    settings,         \* the configuration read through util.get_setting
    ret,              \* what the last handler was called with and returned
    visited,          \* results of the successive forward/'all' advances
    finished,         \* messages_finished sorted the store, nothing added since
    tree,             \* input of the batcher (a built primary Message)
    batched,          \* output of the batcher for `tree`
    THREADS,          \* the build thread registered for the window
    cargo_config,     \* cargo_config: RECENT_CHOICES and the command that asks
    cargo_build       \* cargo_build: LAST_EXTRA_ARGS and the cargo_exec command

vars ==
    <<WINDOW_MESSAGES, settings, ret, visited, finished, tree, batched, THREADS,
      cargo_config, cargo_build>>

-----------------------------------------------------------------------------
(* Bounds of the model *)

\* most diagnostics (PrimaryBatches) a store holds before ingestion stops
MaxDiags == 3

\* most builds started in the window
MaxBuilds == 2

\* most children of a raw diagnostic given to the builder on its own
MaxNested == 2

\* most children of a Message given to the batcher on its own
MaxChildren == 3

-----------------------------------------------------------------------------
(* Python values *)

\* None where a string is expected (text, label, suggested_replacement)
None == "<None>"

\* None where a span tuple is expected
NoSpan == <<>>

\* Message.lineno() of a message without span
NoLine == 999999999

\* the distance in lines beyond which a batch is "far away"
FarLines == 5

Abs(n) == IF n < 0 THEN 0 - n ELSE n

-----------------------------------------------------------------------------
(* The file system and the window's folders, as the path functions see it *)

base_path == "/p"

\* window.folders()
Folders == {"/p"}

FileNames ==
    {"src/a.rs", "src/b.rs", "/p/src/a.rs", "/p/src/b.rs",
     "/ext/m.rs", "/gone/std.rs", "<m macros>"}

\* os.path.isabs
IsAbs(fn) == fn \in {"/p/src/a.rs", "/p/src/b.rs", "/ext/m.rs", "/gone/std.rs"}

\* path.startswith(folder + os.sep) for a folder of the window
InFolders(fn) == fn \in {"/p/src/a.rs", "/p/src/b.rs"}

\* 'macros>' in path
IsMacroMarker(fn) == fn \in {"<m macros>", "/p/<m macros>"}

\* os.path.exists
PathExists(p) == p \in {"/p/src/a.rs", "/p/src/b.rs", "/ext/m.rs"}

\* os.path.basename
BaseName(p) ==
    CASE p = "/p/src/a.rs" -> "a.rs"
      [] p = "/p/src/b.rs" -> "b.rs"
      [] p = "/ext/m.rs" -> "m.rs"
      [] p = "/gone/std.rs" -> "std.rs"
      [] OTHER -> p

_is_external(path) ==
    IF IsMacroMarker(path) THEN TRUE
    ELSE IF ~IsAbs(path) THEN FALSE
    ELSE ~InFolders(path)

\* os.path.realpath(os.path.join(base_path, span['file_name']))
make_span_path(span) ==
    IF IsAbs(span.file_name) THEN span.file_name
    ELSE base_path \o "/" \o span.file_name

\* ((line_start - 1, column_start - 1), (line_end - 1, column_end - 1)),
\* or None when line_start is missing, None or 0
make_span_region(span) ==
    IF span.line_start # 0
    THEN <<<<span.line_start - 1, span.column_start - 1>>,
           <<span.line_end - 1, span.column_end - 1>>>>
    ELSE NoSpan

-----------------------------------------------------------------------------
(* Level *)

Levels == {"error", "warning", "note", "help"}

\* the order of Level objects: the lower, the more severe
LevelOrder(level) ==
    CASE level = "error" -> 0
      [] level = "warning" -> 1
      [] level = "note" -> 2
      [] level = "help" -> 3

level_from_str(s) == IF s \in Levels THEN s ELSE "error"

-----------------------------------------------------------------------------
(* Message *)

\* Message(): the class defaults, with a fresh id
NewMessage(id) ==
    [id |-> id, region_key |-> -1, text |-> None, level |-> None,
     span |-> NoSpan, path |-> None, code |-> None, primary |-> TRUE,
     parent |-> <<>>, hidden |-> FALSE, suggested_replacement |-> None,
     children |-> <<>>]

\* lineno read as the line the span starts on
lineno_of_span_start(m) == IF m.span # NoSpan THEN m.span[1][1] ELSE NoLine

lineno(m) == IF m.span # NoSpan THEN m.span[2][1] ELSE NoLine

\* the comparison without the suggested replacement
is_similar_without_replacement(m, other) ==
    /\ other.path = m.path
    /\ other.span = m.span
    /\ other.level = m.level
    /\ other.text = m.text

is_similar(m, other) ==
    /\ other.path = m.path
    /\ other.span = m.span
    /\ other.level = m.level
    /\ other.text = m.text
    /\ other.suggested_replacement = m.suggested_replacement

-----------------------------------------------------------------------------
(* _collect_rust_messages: the message tree builder.                         *)
(* The builder state `st` is what the nested functions of the source share:  *)
(*   message      the primary Message being filled in                        *)
(*   parent_info  <<>> for the empty dict, <<span>> for {'span': span}        *)
(*   spans        info['spans'] (an element can be assigned to in place)      *)
(*   cb           the messages handed to msg_cb so far                        *)
(*   n            the number of Message() objects created so far             *)
(*   exc          an exception was raised and left the builder               *)

\* a raw span of the compiler; 0 stands for a missing or None line_start
RawSpan(file_name, line, is_primary, label, suggested_replacement, expansion) ==
    [file_name |-> file_name,
     line_start |-> line, line_end |-> line,
     column_start |-> 1, column_end |-> 4,
     is_primary |-> is_primary, text |-> <<>>, label |-> label,
     suggested_replacement |-> suggested_replacement,
     expansion |-> expansion, fake |-> FALSE]

\* fake_span = {'file_name': target_path}: every other key is missing
FakeSpan(target_path) ==
    [RawSpan(target_path, 0, FALSE, None, None, <<>>) EXCEPT !.fake = TRUE]

\* a raw diagnostic
RawInfo(level, message, code, spans, children) ==
    [level |-> level, message |-> message, code |-> code,
     spans |-> spans, children |-> children]

\* the messages without spans that are "not very interesting"
IsBoilerplate(imsg) ==
    imsg \in {"aborting due to previous error", "2 warnings emitted",
              "For more information about this error"}

\* macro_decl_name.startswith('#[')
IsAttributeMacro(name) == name \in {"#[derive(Eq)]"}

RECURSIVE JoinText(_)
JoinText(texts) ==
    IF texts = <<>> THEN "" ELSE Head(texts) \o JoinText(Tail(texts))

set_primary_message(st, info, span, text) ==
    [st EXCEPT
        !.parent_info = <<span>>,
        !.message = [@ EXCEPT
            !.code = IF info.code # <<>> /\ info.code[1].explanation \notin {None, ""}
                     THEN info.code[1].code ELSE @,
            !.path = make_span_path(span),
            !.span = make_span_region(span),
            !.text = text,
            !.level = level_from_str(info.level)]]

\* the note that is left with the defaults of Message(): primary, no parent
add_additional_as_primary(st, msg_cb, span, text, level, suggested_replacement) ==
    [st EXCEPT !.n = @ + 1,
               !.message.children =
                   Append(@, [NewMessage(<<st.message.id[1], st.n + 1>>) EXCEPT
                                 !.text = text,
                                 !.suggested_replacement = suggested_replacement,
                                 !.level = level_from_str(level),
                                 !.path = make_span_path(span),
                                 !.span = make_span_region(span)])]

\* the note that is attached whether or not its file exists
add_additional_to_missing_file(st, msg_cb, span, text, level, suggested_replacement) ==
    LET located == [NewMessage(<<st.message.id[1], st.n + 1>>) EXCEPT
                       !.text = text,
                       !.suggested_replacement = suggested_replacement,
                       !.level = level_from_str(level),
                       !.primary = FALSE,
                       !.path = make_span_path(span),
                       !.span = make_span_region(span)]
    IN  IF \E i \in 1..Len(st.message.children) :
               is_similar(st.message.children[i], located)
        THEN [st EXCEPT !.n = @ + 1]
        ELSE [st EXCEPT !.n = @ + 1,
                        !.message.children =
                            Append(@, [located EXCEPT !.parent = <<st.message.id>>])]

\* the note that is attached without looking for a similar child
add_additional_keeping_similar(st, msg_cb, span, text, level, suggested_replacement) ==
    IF ~PathExists(make_span_path(span))
    THEN [st EXCEPT !.n = @ + 1,
                    !.cb = IF msg_cb
                           THEN Append(@, [NewMessage(<<st.message.id[1], st.n + 1>>) EXCEPT
                                              !.text = text,
                                              !.suggested_replacement = suggested_replacement,
                                              !.level = level_from_str(level),
                                              !.primary = FALSE,
                                              !.path = make_span_path(span)])
                           ELSE @]
    ELSE [st EXCEPT !.n = @ + 1,
                    !.message.children =
                        Append(@, [NewMessage(<<st.message.id[1], st.n + 1>>) EXCEPT
                                      !.text = text,
                                      !.suggested_replacement = suggested_replacement,
                                      !.level = level_from_str(level),
                                      !.primary = FALSE,
                                      !.path = make_span_path(span),
                                      !.span = make_span_region(span),
                                      !.parent = <<st.message.id>>])]

add_additional(st, msg_cb, span, text, level, suggested_replacement) ==
    LET child == [NewMessage(<<st.message.id[1], st.n + 1>>) EXCEPT
                     !.text = text,
                     !.suggested_replacement = suggested_replacement,
                     !.level = level_from_str(level),
                     !.primary = FALSE,
                     !.path = make_span_path(span)]
        made == [st EXCEPT !.n = @ + 1]
    IN  IF ~PathExists(child.path)
        THEN IF msg_cb THEN [made EXCEPT !.cb = Append(@, child)] ELSE made
        ELSE LET located == [child EXCEPT !.span = make_span_region(span)]
             IN  IF \E i \in 1..Len(st.message.children) :
                        is_similar(st.message.children[i], located)
                 THEN made
                 ELSE [made EXCEPT !.message.children =
                          Append(@, [located EXCEPT !.parent = <<st.message.id>>])]

\* the resolver that keeps the expansion it met first
RECURSIVE find_span_r_keeping_the_first(_, _)
find_span_r_keeping_the_first(span, expansion) ==
    IF span.expansion # <<>>
    THEN find_span_r_keeping_the_first(
             span.expansion[1].span,
             IF expansion = <<>> THEN span.expansion ELSE expansion)
    ELSE <<span, expansion>>

RECURSIVE find_span_r(_, _)
find_span_r(span, expansion) ==
    IF span.expansion # <<>>
    THEN find_span_r(span.expansion[1].span, span.expansion)
    ELSE <<span, expansion>>

\* the location fields copied from show_in_span
CopyLocation(span, show_in_span) ==
    [span EXCEPT
        !.file_name = show_in_span.file_name,
        !.line_start = show_in_span.line_start,
        !.line_end = show_in_span.line_end,
        !.column_start = show_in_span.column_start,
        !.column_end = show_in_span.column_end]

\* Lines 988-1014: an external span whose file does not exist is placed
\* "somewhere relevant".  The inner `for span in info['spans']` rebinds the
\* loop variable `span`: after it, `span` is the first primary span of the
\* diagnostic, or its last span when none is primary.
\* Returns [st, span].
PlaceExternal(st, target_path, updated) ==
    IF st.parent_info # <<>>
    THEN LET show_in_span == st.parent_info[1]
         IN  IF show_in_span.fake
             THEN \* show_in_span['byte_start'] raises KeyError
                  [st |-> [st EXCEPT !.exc = TRUE], span |-> updated]
             ELSE [st |-> st, span |-> CopyLocation(updated, show_in_span)]
    ELSE LET prim == {i \in 1..Len(st.spans) : st.spans[i].is_primary}
         IN  IF prim # {}
             THEN LET k == CHOOSE i \in prim : \A j \in prim : i <= j
                  IN  [st |-> st, span |-> st.spans[k]]
             ELSE LET last == Len(st.spans)
                  IN  IF target_path # None
                      THEN LET moved == [st.spans[last] EXCEPT
                                            !.file_name = target_path,
                                            !.line_start = 0]
                           IN  [st |-> [st EXCEPT !.spans[last] = moved],
                                span |-> moved]
                      ELSE [st |-> st, span |-> st.spans[last]]

\* Lines 1021-1023: the source text of the span, when it has some
MacroText(st, info, msg_cb, span) ==
    IF JoinText(span.text) # ""
    THEN add_additional(st, msg_cb, span, "Macro text: " \o JoinText(span.text),
                        info.level, None)
    ELSE st

\* Lines 1015-1023: the notes for a span that stays external.
\* `placed` is [st, span]; so is the result.
ExternalNotes(placed, info, msg_cb, macro_name) ==
    IF placed.st.exc THEN placed
    ELSE [st |-> MacroText(
                     add_additional(placed.st, msg_cb, placed.span,
                         "Errors occurred in " \o macro_name \o " from external crate",
                         info.level, None),
                     info, msg_cb, placed.span),
          span |-> placed.span]

\* Lines 980-984: the end of the expansion chain with is_primary, label and
\* suggested_replacement of the span it was reached from
Updated(span0) ==
    [find_span_r(span0, <<>>)[1] EXCEPT
        !.is_primary = span0.is_primary,
        !.label = span0.label,
        !.suggested_replacement = span0.suggested_replacement]

\* Lines 986-1029 for the resolved span. Returns [st, span].
ExternalResolved(st, info, target_path, msg_cb, updated, expansion) ==
    IF _is_external(updated.file_name)
    THEN ExternalNotes(IF ~PathExists(updated.file_name)
                       THEN PlaceExternal(st, target_path, updated)
                       ELSE [st |-> st, span |-> updated],
                       info, msg_cb, updated.file_name)
    ELSE IF \/ expansion = <<>>
            \/ expansion[1].def_site_span = <<>>
            \/ _is_external(expansion[1].def_site_span[1].file_name)
    THEN [st |-> add_additional(st, msg_cb, updated,
                    "this error originates in a macro outside of the current crate",
                    info.level, None),
          span |-> updated]
    ELSE [st |-> st, span |-> updated]

\* Lines 971-1029: what is done for a span in an external file.
\* Returns [st, span]: `span` is what the rest of the loop body works on.
\* (`if not target_span: continue` never continues: a span is no empty dict.)
ExternalSpan(st, info, target_path, msg_cb, span0) ==
    ExternalResolved(st, info, target_path, msg_cb, Updated(span0),
                     find_span_r(span0, <<>>)[2])

\* Lines 1033-1039: the macro invocation site in the local crate
InvocationNote(st, msg_cb, span) ==
    IF /\ span.expansion # <<>>
       /\ ~_is_external(span.file_name)
       /\ ~IsAttributeMacro(span.expansion[1].macro_decl_name)
    THEN add_additional(st, msg_cb, find_span_r(span, <<>>)[1],
                        "in this macro invocation", "help", None)
    ELSE st

\* Lines 1041-1046
PrimarySpan(st, info, msg_cb, span) ==
    IF span.is_primary
    THEN IF st.parent_info # <<>>
         THEN add_additional(st, msg_cb, span, info.message, info.level, None)
         ELSE set_primary_message(st, info, span, info.message)
    ELSE st

\* Lines 1048-1059
LabelNote(st, info, msg_cb, span) ==
    IF span.label # None
    THEN add_additional(st, msg_cb, span, span.label, info.level, None)
    ELSE st

\* Lines 1060-1064
SuggestionNote(st, msg_cb, span) ==
    IF span.suggested_replacement # None
    THEN add_additional(st, msg_cb, span, None, "help",
                        span.suggested_replacement)
    ELSE st

\* Lines 1031-1064: the loop body behind the external part
SpanRest(st, info, msg_cb, span) ==
    IF st.exc THEN st
    ELSE SuggestionNote(
             LabelNote(
                 PrimarySpan(InvocationNote(st, msg_cb, span),
                             info, msg_cb, span),
                 info, msg_cb, span),
             msg_cb, span)

SpanRestOf(placed, info, msg_cb) == SpanRest(placed.st, info, msg_cb, placed.span)

\* Lines 970-1064: the body of `for span in info['spans']` for the i-th span
SpanStep(st, info, target_path, msg_cb, i) ==
    IF _is_external(st.spans[i].file_name)
    THEN SpanRestOf(ExternalSpan(st, info, target_path, msg_cb, st.spans[i]),
                    info, msg_cb)
    ELSE SpanRest(st, info, msg_cb, st.spans[i])

RECURSIVE SpanLoop(_, _, _, _, _)
SpanLoop(st, info, target_path, msg_cb, i) ==
    IF st.exc \/ i > Len(st.spans) THEN st
    ELSE SpanLoop(SpanStep(st, info, target_path, msg_cb, i),
                  info, target_path, msg_cb, i + 1)

\* Lines 933-962: a diagnostic without spans
NoSpans(st, info, target_path, msg_cb) ==
    IF st.parent_info # <<>>
    THEN add_additional(st, msg_cb, st.parent_info[1], info.message,
                        info.level, None)
    ELSE IF IsBoilerplate(info.message) THEN st
    ELSE IF target_path # None
    THEN set_primary_message(st, info, FakeSpan(target_path), info.message)
    ELSE IF msg_cb
    THEN LET tmp_msg == [NewMessage(<<st.message.id[1], st.n + 1>>) EXCEPT
                            !.level = level_from_str(info.level),
                            !.text = info.message]
         IN  [st EXCEPT !.n = @ + 1, !.cb = Append(@, tmp_msg)]
    ELSE st

RECURSIVE _collect_rust_messages(_, _, _, _, _)
RECURSIVE ChildLoop(_, _, _, _, _, _)

\* Lines 1067-1070: each child is collected with parent_info.copy(), so what
\* the child does to its copy is not seen by the next child
ChildLoop(st, children, target_path, msg_cb, cfg, i) ==
    IF st.exc \/ i > Len(children) THEN st
    ELSE LET sub == _collect_rust_messages(
                        [st EXCEPT !.spans = children[i].spans],
                        children[i], target_path, msg_cb, cfg)
         IN  ChildLoop([sub EXCEPT !.parent_info = st.parent_info,
                                   !.spans = st.spans],
                       children, target_path, msg_cb, cfg, i + 1)

_collect_rust_messages(st, info, target_path, msg_cb, cfg) ==
    IF /\ info.level # "error"
       /\ cfg.rust_syntax_hide_warnings
       /\ st.parent_info = <<>>
    THEN st
    ELSE ChildLoop(
             SpanLoop(IF Len(info.spans) = 0
                      THEN NoSpans(st, info, target_path, msg_cb)
                      ELSE st,
                      info, target_path, msg_cb, 1),
             info.children, target_path, msg_cb, cfg, 1)

\* the builder state add_rust_messages starts from: Message(), {} and no call
BuilderStart(info, id) ==
    [message |-> NewMessage(<<id, 0>>), parent_info |-> <<>>,
     spans |-> info.spans, cb |-> <<>>, n |-> 0, exc |-> FALSE]

-----------------------------------------------------------------------------
(* MessageBatch, PrimaryBatch, ChildBatch.                                   *)
(* Object references are ids: a batch names its PrimaryBatch by the id of    *)
(* the primary Message, a PrimaryBatch names its ChildBatches by their       *)
(* (path, line) keys, and the primary Message of a batch lists its children  *)
(* by id (their records are the ones in the batches' `children` lists).      *)

RECURSIVE Ids(_)
Ids(msgs) == IF msgs = <<>> THEN <<>> ELSE <<Head(msgs).id>> \o Ids(Tail(msgs))

PrimaryBatch(primary_message) ==
    [kind |-> "PrimaryBatch", primary_id |-> primary_message.id,
     children |-> <<[primary_message EXCEPT !.children = Ids(@)]>>,
     child_batches |-> <<>>, child_links |-> <<>>, back_link |-> <<>>]

ChildBatch(primary_batch) ==
    [kind |-> "ChildBatch", primary_id |-> primary_batch.primary_id,
     children |-> <<>>,
     child_batches |-> <<>>, child_links |-> <<>>, back_link |-> <<>>]

\* MessageBatch.first()
first(batch) == batch.children[1]

\* MessageBatch.path()
BatchPath(batch) == first(batch).path

\* MessageBatch.hidden: hidden when its messages are all hidden
BatchHidden(batch) ==
    \A i \in 1..Len(batch.children) : batch.children[i].hidden

-----------------------------------------------------------------------------
(* _batch_and_cross_link *)

\* 'file:///path:line:col' plus ':external'; without span the line is the
\* arbitrarily large one and there is no column (0).  The paths of the model
\* hold no backslash, so replace('\\', '/') leaves them as they are.
make_file_path(msg) ==
    IF msg.span # NoSpan
    THEN [path |-> msg.path, line |-> msg.span[2][1] + 1,
          col |-> msg.span[2][2] + 1, external |-> _is_external(msg.path)]
    ELSE [path |-> msg.path, line |-> NoLine, col |-> 0,
          external |-> _is_external(msg.path)]

\* the link text with the line number as the span has it, counted from 0
make_link_text_from_zero(msg, other) ==
    IF other.span # NoSpan
    THEN <<IF msg.path # other.path THEN BaseName(other.path)
           ELSE IF lineno(msg) < lineno(other) THEN "down" ELSE "up",
           lineno(other)>>
    ELSE <<IF msg.path # other.path THEN BaseName(other.path)
           ELSE IF lineno(msg) < lineno(other) THEN "down" ELSE "up">>

\* text for msg -> other: <<filename, line>> is 'filename:line'
make_link_text(msg, other) ==
    LET filename == IF msg.path = other.path
                    THEN IF lineno(msg) < lineno(other) THEN "down" ELSE "up"
                    ELSE BaseName(other.path)
    IN  IF other.span # NoSpan THEN <<filename, lineno(other) + 1>>
        ELSE <<filename>>

\* index of `key` in the insertion-ordered map, 0 when it is not a key
KeyIndex(map, key) ==
    LET hits == {i \in 1..Len(map) : map[i].key = key}
    IN  IF hits = {} THEN 0 ELSE CHOOSE i \in hits : TRUE

\* the grouping that moves the batch of a key to the end when the key comes
\* again
GroupStep_moving_to_the_end(map, msg) ==
    LET key == <<msg.path, lineno(msg)>>
        k == KeyIndex(map, key)
    IN  IF k > 1
        THEN SubSeq(map, 1, k - 1) \o SubSeq(map, k + 1, Len(map))
             \o <<[map[k] EXCEPT !.batch.children = Append(@, msg)]>>
        ELSE IF k = 1
        THEN [map EXCEPT ![1].batch.children = Append(@, msg)]
        ELSE Append([map EXCEPT ![1].batch.child_batches = Append(@, key)],
                    [key |-> key,
                     batch |-> [ChildBatch(map[1].batch) EXCEPT
                                   !.children = <<msg>>]])

\* Lines 1094-1102: one child is put into the batch of its (path, line) key
GroupStep(map, msg) ==
    LET key == <<msg.path, lineno(msg)>>
        k == KeyIndex(map, key)
    IN  IF k # 0
        THEN [map EXCEPT ![k].batch.children = Append(@, msg)]
        ELSE Append([map EXCEPT ![1].batch.child_batches = Append(@, key)],
                    [key |-> key,
                     batch |-> [ChildBatch(map[1].batch) EXCEPT
                                   !.children = <<msg>>]])

RECURSIVE GroupLoop(_, _)
GroupLoop(map, msgs) ==
    IF msgs = <<>> THEN map
    ELSE GroupLoop(GroupStep(map, Head(msgs)), Tail(msgs))

\* the far-away test with the limit itself counted as far
IsFarAway_from_the_limit(msg, primary_message) ==
    \/ msg.path # primary_message.path
    \/ Abs(lineno(msg) - lineno(primary_message)) >= FarLines

\* "Only include a link if the message is far away"
IsFarAway(msg, primary_message) ==
    \/ msg.path # primary_message.path
    \/ Abs(lineno(msg) - lineno(primary_message)) > FarLines

\* Lines 1115-1126: the cross links of the k-th entry of the map
LinkStep(map, primary_message, k) ==
    LET msg == first(map[k].batch)
    IN  IF k = 1 \/ ~IsFarAway(msg, primary_message) THEN map
        ELSE [map EXCEPT
                 ![1].batch.child_links =
                     Append(@, <<make_file_path(msg),
                                 make_link_text(primary_message, msg)>>),
                 ![k].batch.back_link =
                     <<make_file_path(primary_message),
                       make_link_text(msg, primary_message)>>]

RECURSIVE LinkLoop(_, _, _)
LinkLoop(map, primary_message, k) ==
    IF k > Len(map) THEN map
    ELSE LinkLoop(LinkStep(map, primary_message, k), primary_message, k + 1)

RECURSIVE MapValues(_)
MapValues(map) ==
    IF map = <<>> THEN <<>> ELSE <<Head(map).batch>> \o MapValues(Tail(map))

_batch_and_cross_link(primary_message) ==
    LET primary_batch == PrimaryBatch(primary_message)
        key == <<primary_message.path, lineno(primary_message)>>
        path_line_map ==
            GroupLoop(<<[key |-> key, batch |-> primary_batch]>>,
                      primary_message.children)
    IN  MapValues(LinkLoop(path_line_map, primary_message, 1))

-----------------------------------------------------------------------------
(* WINDOW_MESSAGES[window.id()]: paths is the OrderedDict as the sequence of *)
(* its items, batch_index the 0-based cursor                                 *)

NoStore == [exists |-> FALSE]

\* rust_thread.THREADS has no thread for the window
NoThread == [build |-> 0, pc |-> "none", sent |-> 0, found |-> 0]

\* the questions of the configuration commands of the model
Questions ==
    {"which", "variant", "package", "target", "profile", "command",
     "new_command", "allows_target", "allows_target_triple", "allows_release",
     "allows_features", "allows_json", "requires_manifest",
     "requires_view_path", "wants_run_args", "name"}

\* a key that is not in a dict
Absent == "<absent>"

\* {} as a dict over the questions
NoChoices == [q \in Questions |-> Absent]

\* no configuration command has run: RECENT_CHOICES is empty
NoConfig == [RECENT_CHOICES |-> NoChoices, runs |-> 0, pc |-> "none"]

\* the command names of the model: two that cargo_settings defines and one
\* that a user entered for a new build variant
Commands == {"run", "script", "fuzz"}

\* a command_info dict, of which cargo_build reads two keys
CommandInfo(command, wants_run_args) ==
    [command |-> command, wants_run_args |-> wants_run_args]

\* {} as a command_info
NoInfo == CommandInfo(Absent, Absent)

\* no build command has run: LAST_EXTRA_ARGS is empty
NoExec ==
    [LAST_EXTRA_ARGS |-> [k \in Commands |-> Absent],
     command_name |-> None, command_info |-> NoInfo, extra_run_args |-> "",
     panel |-> Absent, entered |-> [k \in Commands |-> Absent],
     runs |-> 0, started |-> 0, pc |-> "none"]

NewStore ==
    [exists |-> TRUE, paths |-> <<>>, batch_index |-> <<-1, -1>>,
     hidden |-> FALSE]

\* index of `path` among the keys of the OrderedDict, 0 when it is no key
PathIndex(paths, path) ==
    LET hits == {i \in 1..Len(paths) : paths[i].path = path}
    IN  IF hits = {} THEN 0 ELSE CHOOSE i \in hits : TRUE

\* paths.get(path, [])
BatchesOf(winfo, path) ==
    IF winfo.exists /\ PathIndex(winfo.paths, path) # 0
    THEN winfo.paths[PathIndex(winfo.paths, path)].batches
    ELSE <<>>

\* the count of the batches instead of their messages
CountMessages_counting_batches(batches) == Len(batches)

\* len(list(itertools.chain.from_iterable(path_batches)))
RECURSIVE CountMessages(_)
CountMessages(batches) ==
    IF batches = <<>> THEN 0
    ELSE Len(Head(batches).children) + CountMessages(Tail(batches))

\* the saving that puts the batch in front of the batches of its path
SaveStep_in_front(sv, batch, msg_cb) ==
    LET path == BatchPath(batch)
        paths1 == IF PathIndex(sv.winfo.paths, path) = 0
                  THEN Append(sv.winfo.paths, [path |-> path, batches |-> <<>>])
                  ELSE sv.winfo.paths
    IN  [winfo |-> [sv.winfo EXCEPT !.paths =
                       [paths1 EXCEPT ![PathIndex(paths1, path)].batches =
                           <<batch>> \o @]],
         cb |-> sv.cb]

\* Lines 1150-1165: one batch is saved.  `sv` is [winfo, cb].
SaveStep(sv, batch, msg_cb) ==
    LET paths0 == sv.winfo.paths
        path == BatchPath(batch)
        paths1 == IF PathIndex(paths0, path) = 0
                  THEN Append(paths0, [path |-> path, batches |-> <<>>])
                  ELSE paths0
        k == PathIndex(paths1, path)
        num == CountMessages(paths1[k].batches)
        keyed == [batch EXCEPT !.children =
                     [i \in 1..Len(batch.children) |->
                         [batch.children[i] EXCEPT !.region_key = num + i - 1]]]
        paths2 == [paths1 EXCEPT ![k].batches = Append(@, keyed)]
    IN  [winfo |-> [sv.winfo EXCEPT !.paths = paths2],
         cb |-> IF ~sv.winfo.hidden /\ msg_cb
                THEN sv.cb \o keyed.children ELSE sv.cb]

RECURSIVE SaveLoop(_, _, _)
SaveLoop(sv, batches, msg_cb) ==
    IF batches = <<>> THEN sv
    ELSE SaveLoop(SaveStep(sv, Head(batches), msg_cb), Tail(batches), msg_cb)

\* returns [winfo, cb]
_save_batches(winfo, batches, msg_cb, cb) ==
    SaveLoop([winfo |-> IF winfo.exists THEN winfo ELSE NewStore, cb |-> cb],
             batches, msg_cb)

\* the duplicate test that finds no duplicate
_is_duplicate_message_never(winfo, primary_message) == FALSE

_is_duplicate_message(winfo, primary_message) ==
    LET batches == BatchesOf(winfo, primary_message.path)
    IN  \E i \in 1..Len(batches) :
            /\ batches[i].kind = "PrimaryBatch"
            /\ is_similar(first(batches[i]), primary_message)

\* the number of PrimaryBatches of the store
RECURSIVE CountPrimary(_)
CountPrimary(paths) ==
    IF paths = <<>> THEN 0
    ELSE Cardinality({i \in 1..Len(Head(paths).batches) :
                         Head(paths).batches[i].kind = "PrimaryBatch"})
         + CountPrimary(Tail(paths))

NumDiags(winfo) == IF winfo.exists THEN CountPrimary(winfo.paths) ELSE 0

\* add_rust_messages; `raw` is [reason, message]: reason is None when the
\* record has no 'reason' key (rustc), and then the record is the diagnostic.
\* Returns [winfo, cb, outcome, primary].
add_rust_messages(winfo, raw, target_path, msg_cb, cfg) ==
    LET info == raw.message
        built == _collect_rust_messages(
                     BuilderStart(info, NumDiags(winfo) + 1),
                     info, target_path, msg_cb, cfg)
        primary_message == built.message
        saved == _save_batches(winfo, _batch_and_cross_link(primary_message),
                               msg_cb, built.cb)
    IN  IF raw.reason # None /\ raw.reason # "compiler-message"
        THEN [winfo |-> winfo, cb |-> <<>>, outcome |-> "ignored",
              primary |-> NewMessage(<<0, 0>>)]
        ELSE IF built.exc
        THEN [winfo |-> winfo, cb |-> built.cb, outcome |-> "exception",
              primary |-> primary_message]
        ELSE IF primary_message.path = None
        THEN [winfo |-> winfo, cb |-> built.cb, outcome |-> "no path",
              primary |-> primary_message]
        ELSE IF _is_duplicate_message(winfo, primary_message)
        THEN [winfo |-> winfo, cb |-> built.cb, outcome |-> "duplicate",
              primary |-> primary_message]
        ELSE [winfo |-> saved.winfo, cb |-> saved.cb, outcome |-> "saved",
              primary |-> primary_message]

\* clear_messages: soft keeps the entry and hides it (a window without an
\* entry gets none: the flag is set on a throw-away dict); otherwise the
\* entry is popped
\* the clearing that is soft whatever it is asked for
clear_messages_always_soft(winfo, soft) ==
    IF winfo.exists THEN [winfo EXCEPT !.hidden = TRUE] ELSE winfo

\* the clearing that takes the cursor back
clear_messages_resetting_cursor(winfo, soft) ==
    IF soft
    THEN IF winfo.exists
         THEN [winfo EXCEPT !.hidden = TRUE, !.batch_index = <<-1, -1>>]
         ELSE winfo
    ELSE NoStore

clear_messages(winfo, soft) ==
    IF soft
    THEN IF winfo.exists THEN [winfo EXCEPT !.hidden = TRUE] ELSE winfo
    ELSE NoStore

-----------------------------------------------------------------------------
(* _sort_messages *)

\* the order of the path strings of the model
PathOrder(path) ==
    CASE path = "/ext/m.rs" -> 0
      [] path = "/p/src/a.rs" -> 1
      [] path = "/p/src/b.rs" -> 2
      [] OTHER -> 3

\* the sort key without the level
SortKey_without_level(item) == <<0, PathOrder(item.path), item.lineno>>

\* x[:3] of an item (first.level, path, first.lineno(), batch)
SortKey(item) ==
    <<LevelOrder(item.level), PathOrder(item.path), item.lineno>>

\* tuple comparison a <= b
KeyLeq(a, b) ==
    \/ a[1] < b[1]
    \/ a[1] = b[1] /\ a[2] < b[2]
    \/ a[1] = b[1] /\ a[2] = b[2] /\ a[3] <= b[3]

\* items of one path, in order
RECURSIVE PathItems(_, _)
PathItems(path, batches) ==
    IF batches = <<>> THEN <<>>
    ELSE <<[level |-> first(Head(batches)).level, path |-> path,
            lineno |-> lineno(first(Head(batches))), batch |-> Head(batches)]>>
         \o PathItems(path, Tail(batches))

RECURSIVE AllItems(_)
AllItems(paths) ==
    IF paths = <<>> THEN <<>>
    ELSE PathItems(Head(paths).path, Head(paths).batches) \o AllItems(Tail(paths))

\* an insertion that puts an item before the items of its own key
RECURSIVE InsertSorted_before_equal(_, _)
InsertSorted_before_equal(sorted, item) ==
    IF sorted = <<>> THEN <<item>>
    ELSE IF /\ KeyLeq(SortKey(Head(sorted)), SortKey(item))
            /\ SortKey(Head(sorted)) # SortKey(item)
    THEN <<Head(sorted)>> \o InsertSorted_before_equal(Tail(sorted), item)
    ELSE <<item>> \o sorted

\* list.sort is stable: an item goes behind the items that are not greater
RECURSIVE InsertSorted(_, _)
InsertSorted(sorted, item) ==
    IF sorted = <<>> THEN <<item>>
    ELSE IF KeyLeq(SortKey(Head(sorted)), SortKey(item))
    THEN <<Head(sorted)>> \o InsertSorted(Tail(sorted), item)
    ELSE <<item>> \o sorted

RECURSIVE SortItems(_, _)
SortItems(sorted, items) ==
    IF items = <<>> THEN sorted
    ELSE SortItems(InsertSorted(sorted, Head(items)), Tail(items))

\* batches_by_path.setdefault(path, []).append(batch), item by item
RECURSIVE Regroup(_, _)
Regroup(paths, items) ==
    IF items = <<>> THEN paths
    ELSE LET item == Head(items)
             paths1 == IF PathIndex(paths, item.path) = 0
                       THEN Append(paths, [path |-> item.path, batches |-> <<>>])
                       ELSE paths
             k == PathIndex(paths1, item.path)
         IN  Regroup([paths1 EXCEPT ![k].batches = Append(@, item.batch)],
                     Tail(items))

\* the sort pass that does not ask the configuration
_sort_messages_whatever_the_setting(winfo, cfg) ==
    IF ~winfo.exists THEN winfo
    ELSE [winfo EXCEPT !.paths =
             Regroup(<<>>, SortItems(<<>>, AllItems(winfo.paths)))]

_sort_messages(winfo, cfg) ==
    IF ~cfg.rust_sort_messages THEN winfo
    ELSE IF ~winfo.exists THEN winfo
    ELSE [winfo EXCEPT !.paths =
             Regroup(<<>>, SortItems(<<>>, AllItems(winfo.paths)))]

-----------------------------------------------------------------------------
(* Navigation: _advance_next_message, _advance_prev_message *)

\* the level test that lets every primary message through
_is_matching_level_any(levels, message) == message.primary

_is_matching_level(levels, message) ==
    IF ~message.primary THEN FALSE
    ELSE IF levels = "all" THEN TRUE
    ELSE IF levels = "error" /\ message.level = "error" THEN TRUE
    ELSE IF levels = "warning" /\ message.level # "error" THEN TRUE
    ELSE FALSE

\* the test of the two scans on a candidate batch
IsCandidate(batch, levels) ==
    ~BatchHidden(batch) /\ _is_matching_level(levels, first(batch))

\* the forward scan that keeps batch_idx when it moves to the next path
RECURSIVE NextScan_keeps_batch_idx(_, _, _, _)
NextScan_keeps_batch_idx(paths, levels, path_idx, batch_idx) ==
    IF ~(path_idx < Len(paths)) THEN <<>>
    ELSE LET batches == paths[path_idx + 1].batches
         IN  IF ~(batch_idx < Len(batches))
             THEN NextScan_keeps_batch_idx(paths, levels, path_idx + 1, batch_idx)
             ELSE IF IsCandidate(batches[batch_idx + 1], levels)
             THEN <<path_idx, batch_idx>>
             ELSE NextScan_keeps_batch_idx(paths, levels, path_idx, batch_idx + 1)

\* Lines 634-644: the forward scan from (path_idx, batch_idx), 0-based;
\* the index found, or <<>> when the scan runs off the end
RECURSIVE NextScan(_, _, _, _)
NextScan(paths, levels, path_idx, batch_idx) ==
    IF ~(path_idx < Len(paths)) THEN <<>>
    ELSE LET batches == paths[path_idx + 1].batches
         IN  IF ~(batch_idx < Len(batches))
             THEN NextScan(paths, levels, path_idx + 1, 0)
             ELSE IF IsCandidate(batches[batch_idx + 1], levels)
             THEN <<path_idx, batch_idx>>
             ELSE NextScan(paths, levels, path_idx, batch_idx + 1)

\* returns [winfo, idx, exc, scans]; idx is <<>> for None
RECURSIVE _advance_next_message(_, _, _)
_advance_next_message(winfo, levels, wrap_around) ==
    LET cur == winfo.batch_index
        found == IF cur[1] = -1
                 THEN NextScan(winfo.paths, levels, 0, 0)
                 ELSE NextScan(winfo.paths, levels, cur[1], cur[2] + 1)
    IN  IF found # <<>>
        THEN [winfo |-> [winfo EXCEPT !.batch_index = found], idx |-> found,
              exc |-> FALSE, scans |-> 1]
        ELSE IF wrap_around
        THEN [winfo |-> winfo, idx |-> <<>>, exc |-> FALSE, scans |-> 1]
        ELSE LET again == _advance_next_message(
                              [winfo EXCEPT !.batch_index = <<-1, -1>>],
                              levels, TRUE)
             IN  [again EXCEPT !.scans = @ + 1]

\* the last index read as the first batch of the last path
_last_index_first_batch(paths) == <<Len(paths) - 1, 0>>

_last_index(paths) ==
    <<Len(paths) - 1, Len(paths[Len(paths)].batches) - 1>>

\* Lines 673-684: the backward scan from (path_idx, batch_idx), 0-based;
\* [idx, exc]: batches[batch_idx] raises IndexError when batch_idx is not
\* below len(batches)
RECURSIVE PrevScan(_, _, _, _)
PrevScan(paths, levels, path_idx, batch_idx) ==
    IF ~(path_idx >= 0) THEN [idx |-> <<>>, exc |-> FALSE]
    ELSE LET batches == paths[path_idx + 1].batches
         IN  IF ~(batch_idx >= 0)
             THEN IF path_idx - 1 >= 0
                  THEN PrevScan(paths, levels, path_idx - 1,
                                Len(paths[path_idx].batches) - 1)
                  ELSE PrevScan(paths, levels, path_idx - 1, batch_idx)
             ELSE IF ~(batch_idx < Len(batches))
             THEN [idx |-> <<>>, exc |-> TRUE]
             ELSE IF IsCandidate(batches[batch_idx + 1], levels)
             THEN [idx |-> <<path_idx, batch_idx>>, exc |-> FALSE]
             ELSE PrevScan(paths, levels, path_idx, batch_idx - 1)

RECURSIVE _advance_prev_message(_, _, _)
_advance_prev_message(winfo, levels, wrap_around) ==
    LET cur == winfo.batch_index
        start == IF cur[1] = -1 THEN _last_index(winfo.paths)
                 ELSE <<cur[1], cur[2] - 1>>
        found == PrevScan(winfo.paths, levels, start[1], start[2])
    IN  IF found.exc
        THEN [winfo |-> winfo, idx |-> <<>>, exc |-> TRUE, scans |-> 1]
        ELSE IF found.idx # <<>>
        THEN [winfo |-> [winfo EXCEPT !.batch_index = found.idx],
              idx |-> found.idx, exc |-> FALSE, scans |-> 1]
        ELSE IF wrap_around
        THEN [winfo |-> winfo, idx |-> <<>>, exc |-> FALSE, scans |-> 1]
        ELSE LET again == _advance_prev_message(
                              [winfo EXCEPT !.batch_index = <<-1, -1>>],
                              levels, TRUE)
             IN  [again EXCEPT !.scans = @ + 1]

\* redraw_all_open_views: the messages are shown again
redraw_all_open_views(winfo) ==
    IF winfo.exists THEN [winfo EXCEPT !.hidden = FALSE] ELSE winfo

\* the showing that does not redraw a hidden store
_show_message_without_redraw(winfo, current_idx) == winfo

\* _show_message(window, current_idx): nothing for None; a hidden store is
\* redrawn before the view is scrolled to the message
_show_message(winfo, current_idx) ==
    IF current_idx = <<>> THEN winfo
    ELSE IF ~winfo.exists THEN winfo
    ELSE IF winfo.hidden THEN redraw_all_open_views(winfo)
    ELSE winfo

\* show_next_message / show_prev_message: [winfo, idx, exc, scans]
show_next_message(winfo, levels) ==
    LET adv == _advance_next_message(winfo, levels, FALSE)
    IN  [adv EXCEPT !.winfo = _show_message(adv.winfo, adv.idx)]

show_prev_message(winfo, levels) ==
    LET adv == _advance_prev_message(winfo, levels, FALSE)
    IN  IF adv.exc THEN adv
        ELSE [adv EXCEPT !.winfo = _show_message(adv.winfo, adv.idx)]

-----------------------------------------------------------------------------
(* _accept_replace *)

\* the store with f applied to every message for which `sel` holds
MapMessages(winfo, Sel(_), F(_)) ==
    [winfo EXCEPT !.paths =
        [p \in 1..Len(winfo.paths) |->
            [winfo.paths[p] EXCEPT !.batches =
                [b \in 1..Len(winfo.paths[p].batches) |->
                    [winfo.paths[p].batches[b] EXCEPT !.children =
                        [i \in 1..Len(winfo.paths[p].batches[b].children) |->
                            LET m == winfo.paths[p].batches[b].children[i]
                            IN  IF Sel(m) THEN F(m) ELSE m]]]]]]

\* the id of the primary Message of the tree a message belongs to
RootId(m) == IF m.parent # <<>> THEN m.parent[1] ELSE m.id

\* the messages of the store as a set
StoredMessages(winfo) ==
    IF ~winfo.exists THEN {}
    ELSE UNION {UNION {{winfo.paths[p].batches[b].children[i] :
                           i \in 1..Len(winfo.paths[p].batches[b].children)} :
                       b \in 1..Len(winfo.paths[p].batches)} :
                p \in 1..Len(winfo.paths)}

\* the count that takes the hidden suggestions along
suggestion_count_with_hidden(winfo, msg) ==
    Cardinality({m \in StoredMessages(winfo) :
                    /\ RootId(m) = RootId(msg)
                    /\ m.suggested_replacement # None})

\* Message.suggestion_count: asked of the parent when there is one
suggestion_count(winfo, msg) ==
    Cardinality({m \in StoredMessages(winfo) :
                    /\ RootId(m) = RootId(msg)
                    /\ m.suggested_replacement # None
                    /\ ~m.hidden})

\* PrimaryBatch.dismiss: the diagnostic is removed from the views, the
\* messages of the primary batch and of its child batches are hidden
dismiss(winfo, root_id) ==
    LET OfTree(m) == RootId(m) = root_id
        Hide(m) == [m EXCEPT !.hidden = TRUE]
    IN  MapMessages(winfo, OfTree, Hide)

\* the acceptance that does not ask for the region
_accept_replace_of_any_region(winfo, mid, live) ==
    LET IsMsg(m) == m.id = mid
        Hide(m) == [m EXCEPT !.hidden = TRUE]
    IN  MapMessages(winfo, IsMsg, Hide)

\* `live`: view.get_regions(msg.region_key) is not empty
_accept_replace(winfo, mid, live) ==
    IF ~live THEN winfo
    ELSE LET IsMsg(m) == m.id = mid
             Hide(m) == [m EXCEPT !.hidden = TRUE]
             hid == MapMessages(winfo, IsMsg, Hide)
             msg == CHOOSE m \in StoredMessages(hid) : m.id = mid
         IN  IF suggestion_count(hid, msg) # 0 THEN hid
             ELSE dismiss(hid, RootId(msg))

-----------------------------------------------------------------------------
(* The records the compiler process sends in the model *)

NoCode == <<>>

Plain(file_name, line) == RawSpan(file_name, line, TRUE, None, None, <<>>)

\* error at a.rs:3, with an explained code
DiagErrA ==
    RawInfo("error", "mismatched types",
            <<[code |-> "E0308", explanation |-> "long text"]>>,
            <<Plain("src/a.rs", 3)>>, <<>>)

\* another error on the same line of a.rs
DiagErrA2 ==
    RawInfo("error", "unresolved name", NoCode, <<Plain("src/a.rs", 3)>>, <<>>)

\* note at a.rs:1
DiagNoteA ==
    RawInfo("note", "lint level defined here", NoCode,
            <<Plain("src/a.rs", 1)>>, <<>>)

\* error at b.rs:2 with a labelled second span 8 lines below
DiagErrB ==
    RawInfo("error", "cannot borrow", NoCode,
            <<RawSpan("src/b.rs", 2, TRUE, "second borrow", None, <<>>),
              RawSpan("src/b.rs", 10, FALSE, "first borrow", None, <<>>)>>,
            <<>>)

\* warning at b.rs:5 whose help child carries a suggested replacement
DiagWarnB ==
    RawInfo("warning", "unused variable", NoCode,
            <<Plain("src/b.rs", 5)>>,
            <<RawInfo("help", "prefix it with an underscore", NoCode,
                      <<RawSpan("src/b.rs", 5, TRUE, None, "_x", <<>>)>>,
                      <<>>)>>)

\* a global message without spans
DiagGlobal == RawInfo("error", "main function not found", NoCode, <<>>, <<>>)

\* a summary line without spans
DiagAbort ==
    RawInfo("error", "aborting due to previous error", NoCode, <<>>, <<>>)

RawRecords ==
    {[reason |-> "compiler-message", message |-> d] :
        d \in {DiagErrA, DiagErrA2, DiagNoteA, DiagErrB, DiagWarnB,
               DiagGlobal, DiagAbort}}
    \cup {[reason |-> None, message |-> DiagErrA],
          [reason |-> "compiler-artifact", message |-> DiagErrA]}

TargetPaths == {None, "/p/src/a.rs"}

LevelFilters == {"all", "error", "warning"}

-----------------------------------------------------------------------------
(* The store and its handlers *)

Init ==
    /\ WINDOW_MESSAGES = NoStore
    /\ THREADS = NoThread
    /\ cargo_config = NoConfig
    /\ cargo_build = NoExec
    /\ settings \in {[rust_sort_messages |-> s,
                      rust_syntax_hide_warnings |-> FALSE] : s \in BOOLEAN}
    /\ ret = [op |-> "init"]
    /\ visited = <<>>
    /\ finished = FALSE
    /\ tree = NewMessage(<<0, 0>>)
    /\ batched = <<>>

\* one record of the compiler's output is taken in
Ingest ==
    \E raw \in RawRecords, target_path \in TargetPaths, msg_cb \in BOOLEAN :
        LET r == add_rust_messages(WINDOW_MESSAGES, raw, target_path, msg_cb,
                                   settings)
        IN  /\ NumDiags(WINDOW_MESSAGES) < MaxDiags
            /\ WINDOW_MESSAGES' = r.winfo
            /\ ret' = [op |-> "add_rust_messages", outcome |-> r.outcome,
                       cb |-> r.cb, primary |-> r.primary, msg_cb |-> msg_cb]
            /\ visited' = <<>>
            /\ finished' = (finished /\ r.outcome # "saved")
            /\ UNCHANGED <<THREADS, settings, tree, batched, cargo_config, cargo_build>>

\* messages_finished
Finished ==
    /\ WINDOW_MESSAGES' = _sort_messages(WINDOW_MESSAGES, settings)
    /\ ret' = [op |-> "messages_finished"]
    /\ visited' = <<>>
    /\ finished' = (finished \/
                    (WINDOW_MESSAGES.exists /\ settings.rust_sort_messages))
    /\ UNCHANGED <<THREADS, settings, tree, batched, cargo_config, cargo_build>>

\* what `visited` is after a forward advance with filter 'all'
Visit(winfo, idx) ==
    IF idx = <<>> THEN <<>>
    ELSE IF winfo.batch_index = <<-1, -1>> THEN <<idx>>
    ELSE IF visited # <<>> /\ Len(visited) <= NumDiags(winfo)
    THEN Append(visited, idx)
    ELSE <<>>

\* RustNextMessageCommand for a window that has messages
ShowNext ==
    \E levels \in LevelFilters :
        LET r == show_next_message(WINDOW_MESSAGES, levels)
        IN  /\ WINDOW_MESSAGES.exists
            /\ WINDOW_MESSAGES' = r.winfo
            /\ ret' = [op |-> "show_next_message", levels |-> levels,
                       idx |-> r.idx, exc |-> r.exc, scans |-> r.scans]
            /\ visited' = IF levels = "all" THEN Visit(WINDOW_MESSAGES, r.idx)
                          ELSE <<>>
            /\ UNCHANGED <<THREADS, settings, finished, tree, batched,
                   cargo_config, cargo_build>>

\* RustPrevMessageCommand for a window that has messages
ShowPrev ==
    \E levels \in LevelFilters :
        LET r == show_prev_message(WINDOW_MESSAGES, levels)
        IN  /\ WINDOW_MESSAGES.exists
            /\ WINDOW_MESSAGES' = r.winfo
            /\ ret' = [op |-> "show_prev_message", levels |-> levels,
                       idx |-> r.idx, exc |-> r.exc, scans |-> r.scans]
            /\ visited' = <<>>
            /\ UNCHANGED <<THREADS, settings, finished, tree, batched,
                   cargo_config, cargo_build>>

\* RustDismissMessagesCommand, and the 'hide' link of a message
Dismiss ==
    /\ WINDOW_MESSAGES' = clear_messages(WINDOW_MESSAGES, TRUE)
    /\ ret' = [op |-> "clear_messages", soft |-> TRUE]
    /\ visited' = <<>>
    /\ UNCHANGED <<THREADS, settings, finished, tree, batched,
                   cargo_config, cargo_build>>

\* CargoExecThread.run clears the window before the compiler is started
HardClear ==
    /\ WINDOW_MESSAGES' = clear_messages(WINDOW_MESSAGES, FALSE)
    /\ ret' = [op |-> "clear_messages", soft |-> FALSE]
    /\ visited' = <<>>
    /\ finished' = FALSE
    /\ UNCHANGED <<THREADS, settings, tree, batched, cargo_config, cargo_build>>

\* the 'replace:' link of a suggestion that is on display
AcceptReplace ==
    /\ WINDOW_MESSAGES.exists
    /\ ~WINDOW_MESSAGES.hidden
    /\ \E m \in StoredMessages(WINDOW_MESSAGES), live \in BOOLEAN :
        /\ m.suggested_replacement # None
        /\ ~m.hidden
        /\ WINDOW_MESSAGES' = _accept_replace(WINDOW_MESSAGES, m.id, live)
        /\ ret' = [op |-> "_accept_replace", mid |-> m.id, live |-> live,
                   replaced |-> live]
    /\ visited' = <<>>
    /\ UNCHANGED <<THREADS, settings, finished, tree, batched,
                   cargo_config, cargo_build>>

Next ==
    \/ Ingest
    \/ Finished
    \/ ShowNext
    \/ ShowPrev
    \/ Dismiss
    \/ HardClear
    \/ AcceptReplace

Spec == Init /\ [][Next]_vars

-----------------------------------------------------------------------------
(* Notions the properties are stated in *)

\* the 0-based (path_index, batch_index) pairs that designate a batch
Positions(winfo) ==
    IF ~winfo.exists THEN {}
    ELSE UNION {{<<p - 1, b - 1>> : b \in 1..Len(winfo.paths[p].batches)} :
                   p \in 1..Len(winfo.paths)}

BatchAt(winfo, pos) == winfo.paths[pos[1] + 1].batches[pos[2] + 1]

\* Store order: path order, then batch order
Before(a, b) == a[1] < b[1] \/ (a[1] = b[1] /\ a[2] < b[2])

\* the severity filter of the navigation commands
LevelPasses(levels, level) ==
    \/ levels = "all"
    \/ levels = "error" /\ level = "error"
    \/ levels = "warning" /\ level # "error"

\* a batch navigation may stop at
Navigable(batch, levels) ==
    /\ \E i \in 1..Len(batch.children) : ~batch.children[i].hidden
    /\ batch.children[1].primary
    /\ LevelPasses(levels, batch.children[1].level)

NavigablePositions(winfo, levels) ==
    {pos \in Positions(winfo) : Navigable(BatchAt(winfo, pos), levels)}

\* the least / greatest position of a non-empty set in Store order
FirstOf(S) == CHOOSE a \in S : \A b \in S : a = b \/ Before(a, b)
LastOf(S) == CHOOSE a \in S : \A b \in S : a = b \/ Before(b, a)

Unpositioned == <<-1, -1>>

IsAdvance(r) == r.op \in {"show_next_message", "show_prev_message"}

-----------------------------------------------------------------------------
(* Deduplication *)

\* two Messages agree on path, span, level, text and suggested_replacement
SameFive(m, n) ==
    /\ m.path = n.path
    /\ m.span = n.span
    /\ m.level = n.level
    /\ m.text = n.text
    /\ m.suggested_replacement = n.suggested_replacement

\* the positions of the PrimaryBatches stored under the path of m whose
\* primary Message agrees with m on the five
SimilarPrimaries(winfo, m) ==
    {pos \in Positions(winfo) :
        /\ BatchAt(winfo, pos).kind = "PrimaryBatch"
        /\ winfo.paths[pos[1] + 1].path = m.path
        /\ SameFive(BatchAt(winfo, pos).children[1], m)}

\* C1: ingesting a diagnostic whose built primary Message is similar to the
\* primary Message of a PrimaryBatch already stored under the same path
\* changes nothing in the store (paths, batches, cursor, hidden flag), and so
\* no path ever holds two PrimaryBatches with similar primary Messages: the
\* same diagnostic ingested twice leaves exactly one PrimaryBatch.
C1_DuplicateChangesNothing ==
    /\ [][(/\ ret'.op = "add_rust_messages"
           /\ SimilarPrimaries(WINDOW_MESSAGES, ret'.primary) # {})
          => WINDOW_MESSAGES' = WINDOW_MESSAGES]_vars
    /\ [](\A pos \in Positions(WINDOW_MESSAGES) :
            BatchAt(WINDOW_MESSAGES, pos).kind = "PrimaryBatch"
            => SimilarPrimaries(WINDOW_MESSAGES,
                                BatchAt(WINDOW_MESSAGES, pos).children[1]) = {pos})

\* a diagnostic was ingested a second time and dropped, the store keeping
\* its one PrimaryBatch
C1_Witness ==
    /\ ret.op = "add_rust_messages"
    /\ ret.outcome = "duplicate"
    /\ Cardinality(SimilarPrimaries(WINDOW_MESSAGES, ret.primary)) = 1
    /\ NumDiags(WINDOW_MESSAGES) = 1

-----------------------------------------------------------------------------
(* Navigation *)

\* the positions of the non-hidden PrimaryBatches, in Store order
RECURSIVE InStoreOrder(_)
InStoreOrder(S) ==
    IF S = {} THEN <<>>
    ELSE <<FirstOf(S)>> \o InStoreOrder(S \ {FirstOf(S)})

VisiblePrimaries(winfo) ==
    InStoreOrder({pos \in Positions(winfo) :
                     /\ BatchAt(winfo, pos).kind = "PrimaryBatch"
                     /\ \E i \in 1..Len(BatchAt(winfo, pos).children) :
                            ~BatchAt(winfo, pos).children[i].hidden})

\* C2: on an unchanged store with N >= 1 non-hidden primary batches, the
\* successive advance(forward, all) calls from the unpositioned cursor return
\* the non-hidden primary batches one by one in Store order, and the call
\* after the N-th wraps around to the first of them.
C2_ForwardVisitsAllInOrder ==
    visited # <<>> =>
        LET M == VisiblePrimaries(WINDOW_MESSAGES)
        IN  /\ Len(M) >= 1
            /\ \A i \in 1..Len(visited) :
                   visited[i] = M[((i - 1) % Len(M)) + 1]

\* a full round over three primary batches in two files, and the wrap-around
C2_Witness ==
    /\ Len(visited) = 4
    /\ Len(VisiblePrimaries(WINDOW_MESSAGES)) = 3
    /\ Len(WINDOW_MESSAGES.paths) = 2
    /\ visited[4] = visited[1]

\* the positions a scan passes over between the old cursor and the new one
PassedOver(winfo, old, new, forward) ==
    IF forward
    THEN IF old = Unpositioned \/ Before(old, new)
         THEN {pos \in Positions(winfo) : Before(old, pos) /\ Before(pos, new)}
         ELSE {pos \in Positions(winfo) : Before(old, pos) \/ Before(pos, new)}
    ELSE IF old = Unpositioned
         THEN {pos \in Positions(winfo) : Before(new, pos)}
         ELSE IF Before(new, old)
         THEN {pos \in Positions(winfo) : Before(new, pos) /\ Before(pos, old)}
         ELSE {pos \in Positions(winfo) : Before(pos, old) \/ Before(new, pos)}

\* C3: when an advance succeeds, the batch at the new cursor is not hidden,
\* its first message is primary and its level passes the filter, and every
\* batch between the old and the new cursor position, across paths and
\* around the end of the store, fails one of the three.
C3_AdvanceStopsAtFirstCandidate ==
    [][(IsAdvance(ret') /\ ret'.idx # <<>>) =>
        /\ WINDOW_MESSAGES'.batch_index = ret'.idx
        /\ ret'.idx \in NavigablePositions(WINDOW_MESSAGES', ret'.levels)
        /\ \A pos \in PassedOver(WINDOW_MESSAGES, WINDOW_MESSAGES.batch_index,
                                 ret'.idx, ret'.op = "show_next_message") :
               ~Navigable(BatchAt(WINDOW_MESSAGES, pos), ret'.levels)]_vars

\* an advance with filter 'warning' went past a hidden batch, a child batch
\* and an error batch
C3_Witness ==
    /\ IsAdvance(ret)
    /\ ret.idx # <<>>
    /\ ret.levels = "warning"
    /\ \E pos \in Positions(WINDOW_MESSAGES) :
           /\ BatchAt(WINDOW_MESSAGES, pos).kind = "PrimaryBatch"
           /\ BatchHidden(BatchAt(WINDOW_MESSAGES, pos))
    /\ \E pos \in Positions(WINDOW_MESSAGES) :
           /\ Before(pos, ret.idx)
           /\ BatchAt(WINDOW_MESSAGES, pos).kind = "ChildBatch"
    /\ \E pos \in Positions(WINDOW_MESSAGES) :
           /\ Before(pos, ret.idx)
           /\ BatchAt(WINDOW_MESSAGES, pos).kind = "PrimaryBatch"
           /\ BatchAt(WINDOW_MESSAGES, pos).children[1].level = "error"

\* C4: when no batch of the store can be stopped at, an advance in either
\* direction ends after at most two scans, reports no match and leaves the
\* cursor at (-1, -1), whatever the cursor was.
C4_NoMatchUnpositions ==
    [][(IsAdvance(ret') /\ NavigablePositions(WINDOW_MESSAGES, ret'.levels) = {})
       => /\ ~ret'.exc
          /\ ret'.idx = <<>>
          /\ ret'.scans <= 2
          /\ WINDOW_MESSAGES'.batch_index = Unpositioned]_vars

\* C5: from the unpositioned cursor a forward advance returns the first
\* batch that can be stopped at and a backward advance the last one; from a
\* positioned cursor the advance returns the nearest one strictly beyond the
\* cursor in its direction and, when there is none, wraps around.
C5_AdvanceStartsOneAway ==
    [][(IsAdvance(ret') /\ ret'.idx # <<>>) =>
        LET N == NavigablePositions(WINDOW_MESSAGES, ret'.levels)
            old == WINDOW_MESSAGES.batch_index
            ahead == {pos \in N : Before(old, pos)}
            behind == {pos \in N : Before(pos, old)}
        IN  IF ret'.op = "show_next_message"
            THEN ret'.idx = IF old = Unpositioned \/ ahead = {}
                            THEN FirstOf(N) ELSE FirstOf(ahead)
            ELSE ret'.idx = IF old = Unpositioned \/ behind = {}
                            THEN LastOf(N) ELSE LastOf(behind)]_vars

\* a backward advance from the unpositioned cursor stopped at the last batch
\* of a last path that holds several batches
C5_Witness ==
    /\ ret.op = "show_prev_message"
    /\ ret.idx # <<>>
    /\ ret.idx[2] >= 2
    /\ ret.idx[1] = Len(WINDOW_MESSAGES.paths) - 1
    /\ ret.scans = 1

-----------------------------------------------------------------------------
(* Sort pass *)

\* C6: after messages_finished with sorting enabled the first batch of the
\* first path has the most severe level of all the batches of the store; with
\* warning, error and note diagnostics in several files it is an error.
C6_FirstBatchMostSevere ==
    (finished /\ WINDOW_MESSAGES.exists) =>
        \A pos \in Positions(WINDOW_MESSAGES) :
            LevelOrder(BatchAt(WINDOW_MESSAGES, <<0, 0>>).children[1].level)
                <= LevelOrder(BatchAt(WINDOW_MESSAGES, pos).children[1].level)

PrimaryLevels(winfo) ==
    {BatchAt(winfo, pos).children[1].level :
        pos \in {q \in Positions(winfo) : BatchAt(winfo, q).kind = "PrimaryBatch"}}

\* warning, error and note diagnostics in two files, sorted, an error first
C6_Witness ==
    /\ finished
    /\ ret.op = "messages_finished"
    /\ WINDOW_MESSAGES.exists
    /\ PrimaryLevels(WINDOW_MESSAGES) = {"warning", "error", "note"}
    /\ Len(WINDOW_MESSAGES.paths) = 2
    /\ BatchAt(WINDOW_MESSAGES, <<0, 0>>).children[1].level = "error"

\* the sort pass ran on the store in this step
SortStep == ret'.op = "messages_finished" /\ settings.rust_sort_messages
            /\ WINDOW_MESSAGES.exists

\* C7 as stated: the sort pass leaves the batch order of every path as it was
C7_PathOrderPreserved ==
    [][SortStep =>
        \A p \in 1..Len(WINDOW_MESSAGES.paths) :
            BatchesOf(WINDOW_MESSAGES', WINDOW_MESSAGES.paths[p].path)
                = WINDOW_MESSAGES.paths[p].batches]_vars

\* the (level, line) of the first message of a batch
LevelLine(batch) ==
    <<LevelOrder(batch.children[1].level),
      IF batch.children[1].span = NoSpan THEN NoLine
      ELSE batch.children[1].span[2][1]>>

LevelLineLeq(a, b) == a[1] < b[1] \/ (a[1] = b[1] /\ a[2] <= b[2])

\* C7, amended: the sort pass keeps every batch under its own path and
\* orders the batches of each path by the level and then the line of their
\* first message; two batches of a path that agree on both keep their
\* relative order.
C7_PathSortedStably ==
    [][SortStep =>
        \A p \in 1..Len(WINDOW_MESSAGES.paths) :
            LET was == WINDOW_MESSAGES.paths[p].batches
                now == BatchesOf(WINDOW_MESSAGES', WINDOW_MESSAGES.paths[p].path)
            IN  /\ Len(now) = Len(was)
                /\ \A i \in 1..Len(was) : \E j \in 1..Len(now) : now[j] = was[i]
                /\ \A i, j \in 1..Len(now) :
                       i < j => LevelLineLeq(LevelLine(now[i]), LevelLine(now[j]))
                /\ \A i, j \in 1..Len(was) :
                       (i < j /\ LevelLine(was[i]) = LevelLine(was[j]))
                       => \E k, l \in 1..Len(now) :
                              k < l /\ now[k] = was[i] /\ now[l] = was[j]]_vars

\* the sort pass ran on a path with two batches of the same level and line,
\* still in the order of their ingestion, and moved them before a less severe
\* batch that was ingested before the second of them
C7_Witness ==
    /\ ret.op = "messages_finished"
    /\ finished
    /\ WINDOW_MESSAGES.exists
    /\ \E p \in 1..Len(WINDOW_MESSAGES.paths) :
           LET now == WINDOW_MESSAGES.paths[p].batches
           IN  /\ Len(now) = 3
               /\ LevelLine(now[1]) = LevelLine(now[2])
               /\ now[1].children[1].id[1] < now[2].children[1].id[1]
               /\ now[3].children[1].id[1] < now[2].children[1].id[1]

\* C8: after messages_finished with sorting enabled, a forward pass with
\* filter 'all' from the unpositioned cursor visits no primary batch after a
\* primary batch of a strictly less severe level.
C8_WorstVisitedFirst ==
    (finished /\ visited # <<>>) =>
        \A i, j \in 1..Len(visited) :
            (i < j /\ j <= Len(VisiblePrimaries(WINDOW_MESSAGES)))
            => LevelOrder(BatchAt(WINDOW_MESSAGES, visited[i]).children[1].level)
                 <= LevelOrder(BatchAt(WINDOW_MESSAGES, visited[j]).children[1].level)

-----------------------------------------------------------------------------
(* The batcher on its own: a primary Message gets children one by one, as   *)
(* add_additional attaches them, and is then batched                         *)

\* a span that starts on line `from` and ends on line `to` (0-based)
LineSpan(from, to) == <<<<from, 0>>, <<to, 3>>>>

\* the primary Messages given to the batcher
BatchPrimaries ==
    {[NewMessage(<<1, 0>>) EXCEPT
         !.path = "/p/src/a.rs", !.span = sp, !.level = "error",
         !.text = "mismatched types"] :
        sp \in {LineSpan(6, 6), NoSpan}}

\* where its children can be
ChildPaths == {"/p/src/a.rs", "/p/src/b.rs"}

ChildSpans ==
    {LineSpan(0, 0), LineSpan(0, 1), LineSpan(6, 6), LineSpan(11, 11),
     LineSpan(12, 12), NoSpan}

\* the k-th child, as add_additional makes it
BatchChild(parent, k, path, sp) ==
    [NewMessage(<<parent.id[1], k>>) EXCEPT
        !.path = path, !.span = sp, !.level = "note", !.primary = FALSE,
        !.text = CASE k = 1 -> "first note"
                   [] k = 2 -> "second note"
                   [] OTHER -> "later note",
        !.parent = <<parent.id>>]

BatchInit ==
    /\ WINDOW_MESSAGES = NoStore
    /\ THREADS = NoThread
    /\ cargo_config = NoConfig
    /\ cargo_build = NoExec
    /\ settings = [rust_sort_messages |-> TRUE,
                   rust_syntax_hide_warnings |-> FALSE]
    /\ ret = [op |-> "init"]
    /\ visited = <<>>
    /\ finished = FALSE
    /\ tree \in BatchPrimaries
    /\ batched = <<>>

\* a child that is similar to no child is attached
AttachChild ==
    /\ batched = <<>>
    /\ Len(tree.children) < MaxChildren
    /\ \E path \in ChildPaths, sp \in ChildSpans :
        LET child == BatchChild(tree, Len(tree.children) + 1, path, sp)
        IN  /\ \A i \in 1..Len(tree.children) : ~is_similar(tree.children[i], child)
            /\ tree' = [tree EXCEPT !.children = Append(@, child)]
    /\ UNCHANGED <<WINDOW_MESSAGES, THREADS, settings, ret, visited, finished, batched,
                   cargo_config, cargo_build>>

\* _batch_and_cross_link(window, primary_message)
Batch ==
    /\ batched = <<>>
    /\ batched' = _batch_and_cross_link(tree)
    /\ UNCHANGED <<WINDOW_MESSAGES, THREADS, settings, ret, visited, finished, tree,
                   cargo_config, cargo_build>>

BatchNext == AttachChild \/ Batch

SpecBatch == BatchInit /\ [][BatchNext]_vars

\* the line of a message: the last line of its span, or the very large line
LineOf(m) == IF m.span = NoSpan THEN NoLine ELSE m.span[2][1]

\* the grouping key of a message
KeyOf(m) == <<m.path, LineOf(m)>>

\* m is in another file than the primary Message, or more than 5 lines away
FarFrom(m, primary_message) ==
    \/ m.path # primary_message.path
    \/ LineOf(m) - LineOf(primary_message) > 5
    \/ LineOf(primary_message) - LineOf(m) > 5

\* the outbound links of the PrimaryBatch that point at the batch
LinksTo(primary_batch, batch) ==
    {i \in 1..Len(primary_batch.child_links) :
        /\ primary_batch.child_links[i][1].path = batch.children[1].path
        /\ primary_batch.child_links[i][1].line =
               IF batch.children[1].span = NoSpan THEN NoLine
               ELSE LineOf(batch.children[1]) + 1}

\* C9: after batching, a ChildBatch has a back-link, and the PrimaryBatch
\* exactly one outbound link to it, if and only if its first message is in
\* another file than the primary or more than 5 lines away from it; otherwise
\* it has no back-link and no outbound link points at it; the PrimaryBatch
\* has as many outbound links as there are ChildBatches with a back-link.
C9_CrossLinksIffFar ==
    batched # <<>> =>
        /\ \A k \in 2..Len(batched) :
               LET far == FarFrom(batched[k].children[1], tree)
               IN  /\ (batched[k].back_link # <<>>) <=> far
                   /\ Cardinality(LinksTo(batched[1], batched[k]))
                          = IF far THEN 1 ELSE 0
        /\ Len(batched[1].child_links)
               = Cardinality({k \in 2..Len(batched) : batched[k].back_link # <<>>})
        /\ batched[1].back_link = <<>>

\* a ChildBatch exactly 5 lines away without links, one 6 lines away and one
\* in another file with links
C9_Witness ==
    /\ Len(batched) = 4
    /\ tree.span # NoSpan
    /\ \E k \in 2..4 : /\ KeyOf(batched[k].children[1]) = <<tree.path, LineOf(tree) - 5>>
                       /\ batched[k].back_link = <<>>
    /\ \E k \in 2..4 : /\ KeyOf(batched[k].children[1]) = <<tree.path, LineOf(tree) + 6>>
                       /\ batched[k].back_link # <<>>
    /\ \E k \in 2..4 : /\ batched[k].children[1].path # tree.path
                       /\ batched[k].back_link # <<>>
    /\ Len(batched[1].child_links) = 2

\* the batches of the result that hold the message with this id
HoldersOf(id) ==
    {kj \in {<<k, j>> : k \in 1..Len(batched), j \in 1..MaxChildren + 1} :
        /\ kj[2] <= Len(batched[kj[1]].children)
        /\ batched[kj[1]].children[kj[2]].id = id}

\* C10: in batching, every child is in exactly one batch, the one of its
\* (path, line) key (the line is the very large one without span): the
\* messages of a batch all have the key of the batch, no two batches have
\* the same key, and only the batch of the primary's key is the PrimaryBatch.
C10_GroupedByPathLine ==
    batched # <<>> =>
        /\ \A i \in 1..Len(tree.children) :
               Cardinality(HoldersOf(tree.children[i].id)) = 1
        /\ HoldersOf(tree.id) = {<<1, 1>>}
        /\ \A k \in 1..Len(batched) :
               /\ batched[k].kind = IF k = 1 THEN "PrimaryBatch" ELSE "ChildBatch"
               /\ \A j \in 1..Len(batched[k].children) :
                      KeyOf(batched[k].children[j]) = KeyOf(batched[k].children[1])
        /\ \A k, l \in 1..Len(batched) :
               k # l => KeyOf(batched[k].children[1]) # KeyOf(batched[l].children[1])

\* two children share the ChildBatch of a line on which the span of the first
\* one only ends, a third one on the line of the primary is in the PrimaryBatch
C10_Witness ==
    /\ Len(tree.children) = 3
    /\ Len(batched) = 2
    /\ Len(batched[2].children) = 2
    /\ Len(batched[1].children) = 2
    /\ batched[2].children[1].span # NoSpan
    /\ batched[2].children[1].span[1][1] # batched[2].children[1].span[2][1]

-----------------------------------------------------------------------------
(* Message.is_similar on its own: a Message is compared with a Message that *)
(* differs from it in a chosen set of attributes                             *)

MessageAttributes ==
    {"id", "path", "span", "level", "text", "suggested_replacement",
     "children", "hidden", "primary", "code"}

\* the Messages that are compared with another one
SimilarBases ==
    {[NewMessage(<<1, 1>>) EXCEPT
         !.path = "/p/src/a.rs", !.span = LineSpan(2, 2), !.level = "help",
         !.text = None, !.suggested_replacement = "_x", !.primary = FALSE,
         !.parent = <<<<1, 0>>>>],
     [NewMessage(<<1, 0>>) EXCEPT
         !.path = "/p/src/a.rs", !.span = NoSpan, !.level = "error",
         !.text = "main function not found"]}

\* m with another value for every attribute of the set S
Differing(m, S) ==
    [id |-> IF "id" \in S THEN <<2, m.id[2]>> ELSE m.id,
     region_key |-> m.region_key,
     path |-> IF "path" \in S THEN "/p/src/b.rs" ELSE m.path,
     span |-> IF "span" \notin S THEN m.span
              ELSE IF m.span = NoSpan THEN LineSpan(0, 0)
              ELSE <<m.span[1], <<m.span[2][1], m.span[2][2] + 1>>>>,
     level |-> IF "level" \in S THEN "note" ELSE m.level,
     text |-> IF "text" \in S THEN "consider this" ELSE m.text,
     suggested_replacement |->
         IF "suggested_replacement" \notin S THEN m.suggested_replacement
         ELSE IF m.suggested_replacement = None THEN "" ELSE None,
     children |-> IF "children" \in S THEN <<<<9, 9>>>> ELSE m.children,
     hidden |-> IF "hidden" \in S THEN ~m.hidden ELSE m.hidden,
     primary |-> IF "primary" \in S THEN ~m.primary ELSE m.primary,
     code |-> IF "code" \in S THEN "E0308" ELSE m.code,
     parent |-> m.parent]

SimilarInit ==
    /\ WINDOW_MESSAGES = NoStore
    /\ THREADS = NoThread
    /\ cargo_config = NoConfig
    /\ cargo_build = NoExec
    /\ settings = [rust_sort_messages |-> TRUE,
                   rust_syntax_hide_warnings |-> FALSE]
    /\ visited = <<>>
    /\ finished = FALSE
    /\ batched = <<>>
    /\ tree \in SimilarBases
    /\ \E S \in SUBSET MessageAttributes :
           ret = [op |-> "compare", changed |-> S, other |-> Differing(tree, S)]

\* tree.is_similar(other)
Compare ==
    /\ ret.op = "compare"
    /\ ret' = [op |-> "is_similar", changed |-> ret.changed, other |-> ret.other,
               result |-> is_similar(tree, ret.other)]
    /\ UNCHANGED <<WINDOW_MESSAGES, THREADS, settings, visited, finished, tree, batched,
                   cargo_config, cargo_build>>

SimilarNext == Compare

SpecSimilar == SimilarInit /\ [][SimilarNext]_vars

\* the attributes similarity is judged on
FiveAttributes == {"path", "span", "level", "text", "suggested_replacement"}

\* C11: two Messages are similar exactly when they agree on path, span,
\* level, text and suggested_replacement: a difference in id, children,
\* hidden, primary or code does not matter, and a difference in any one of
\* the five makes them not similar.
C11_SimilarIffFiveAgree ==
    ret.op = "is_similar" =>
        /\ ret.result <=> SameFive(tree, ret.other)
        /\ ret.result <=> (ret.changed \cap FiveAttributes = {})

\* two Messages that differ in everything but the five were found similar
C11_Witness ==
    /\ ret.op = "is_similar"
    /\ ret.result
    /\ ret.changed = MessageAttributes \ FiveAttributes
    /\ ret.other.id # tree.id
    /\ ret.other.hidden # tree.hidden

-----------------------------------------------------------------------------
(* A build whose diagnostics carry suggestions, and the list of messages *)

\* warning at b.rs:5 with two suggestions, the second one 7 lines below
DiagTwoFixes ==
    RawInfo("warning", "unused import", NoCode,
            <<Plain("src/b.rs", 5)>>,
            <<RawInfo("help", "prefix it with an underscore", NoCode,
                      <<RawSpan("src/b.rs", 5, TRUE, None, "_x", <<>>)>>,
                      <<>>),
              RawInfo("help", "remove the use", NoCode,
                      <<RawSpan("src/b.rs", 12, TRUE, None, "", <<>>)>>,
                      <<>>)>>)

SuggestionRecords ==
    {[reason |-> "compiler-message", message |-> d] :
        d \in {DiagTwoFixes, DiagWarnB, DiagErrA}}

\* Lines 728-731 of list_messages: the indexes of the PrimaryBatches from
\* (path_idx, batch_idx) on, 0-based
\* the list that does not leave out the ChildBatches
RECURSIVE JumpTo_with_child_batches(_, _, _)
JumpTo_with_child_batches(paths, path_idx, batch_idx) ==
    IF ~(path_idx < Len(paths)) THEN <<>>
    ELSE IF ~(batch_idx < Len(paths[path_idx + 1].batches))
    THEN JumpTo_with_child_batches(paths, path_idx + 1, 0)
    ELSE <<<<path_idx, batch_idx>>>>
         \o JumpTo_with_child_batches(paths, path_idx, batch_idx + 1)

RECURSIVE JumpTo(_, _, _)
JumpTo(paths, path_idx, batch_idx) ==
    IF ~(path_idx < Len(paths)) THEN <<>>
    ELSE IF ~(batch_idx < Len(paths[path_idx + 1].batches))
    THEN JumpTo(paths, path_idx + 1, 0)
    ELSE IF paths[path_idx + 1].batches[batch_idx + 1].kind # "PrimaryBatch"
    THEN JumpTo(paths, path_idx, batch_idx + 1)
    ELSE <<<<path_idx, batch_idx>>>> \o JumpTo(paths, path_idx, batch_idx + 1)

\* list_messages: [winfo, jump_to, redrawn]; without messages the panel
\* says so; `redrawn`: redraw_all_open_views was called
list_messages(winfo) ==
    IF ~winfo.exists
    THEN [winfo |-> winfo, jump_to |-> <<>>, redrawn |-> FALSE]
    ELSE [winfo |-> IF winfo.hidden THEN redraw_all_open_views(winfo) ELSE winfo,
          jump_to |-> JumpTo(winfo.paths, 0, 0), redrawn |-> winfo.hidden]

\* one record of the compiler's output is taken in
IngestSuggestion ==
    \E raw \in SuggestionRecords, target_path \in TargetPaths, msg_cb \in BOOLEAN :
        LET r == add_rust_messages(WINDOW_MESSAGES, raw, target_path, msg_cb,
                                   settings)
        IN  /\ NumDiags(WINDOW_MESSAGES) < MaxDiags
            /\ WINDOW_MESSAGES' = r.winfo
            /\ ret' = [op |-> "add_rust_messages", outcome |-> r.outcome,
                       cb |-> r.cb, primary |-> r.primary, msg_cb |-> msg_cb]
            /\ visited' = <<>>
            /\ finished' = (finished /\ r.outcome # "saved")
            /\ UNCHANGED <<THREADS, settings, tree, batched, cargo_config, cargo_build>>

\* RustListMessagesCommand
ListMessages ==
    /\ WINDOW_MESSAGES' = list_messages(WINDOW_MESSAGES).winfo
    /\ ret' = [op |-> "list_messages",
               jump_to |-> list_messages(WINDOW_MESSAGES).jump_to,
               redrawn |-> list_messages(WINDOW_MESSAGES).redrawn]
    /\ visited' = <<>>
    /\ UNCHANGED <<THREADS, settings, finished, tree, batched,
                   cargo_config, cargo_build>>

\* on_done / on_highlighted of the quick panel: a listed entry is shown
ListJump ==
    /\ ret.op = "list_messages"
    /\ \E idx \in 1..Len(ret.jump_to) :
           /\ WINDOW_MESSAGES' = _show_message(WINDOW_MESSAGES, ret.jump_to[idx])
           /\ ret' = [op |-> "list_jump", idx |-> ret.jump_to[idx]]
    /\ visited' = <<>>
    /\ UNCHANGED <<THREADS, settings, finished, tree, batched,
                   cargo_config, cargo_build>>

SuggestNext ==
    \/ IngestSuggestion
    \/ Finished
    \/ ShowNext
    \/ ShowPrev
    \/ Dismiss
    \/ HardClear
    \/ AcceptReplace
    \/ ListMessages
    \/ ListJump

SpecSuggest == Init /\ [][SuggestNext]_vars

\* the stored messages of the tree with this primary Message
TreeOf(winfo, root_id) == {m \in StoredMessages(winfo) : RootId(m) = root_id}

\* the non-hidden suggestion children of the tree
OpenSuggestions(winfo, root_id) ==
    {m \in TreeOf(winfo, root_id) :
        m.parent # <<>> /\ m.suggested_replacement # None /\ ~m.hidden}

\* the PrimaryBatch of the tree is on display
PrimaryBatchVisible(winfo, root_id) ==
    \E pos \in Positions(winfo) :
        /\ BatchAt(winfo, pos).kind = "PrimaryBatch"
        /\ BatchAt(winfo, pos).primary_id = root_id
        /\ ~BatchHidden(BatchAt(winfo, pos))

\* C12: when a suggestion with a live region is accepted in a tree with k
\* non-hidden suggestion children, that message becomes hidden and
\* suggestion_count() of every message of the tree is k-1; while the count
\* is positive nothing else is hidden and the PrimaryBatch stays visible,
\* and with the last suggestion (count 0) the PrimaryBatch is dismissed.
C12_SuggestionLifecycle ==
    [][(ret'.op = "_accept_replace" /\ ret'.live) =>
        LET root == RootId(CHOOSE m \in StoredMessages(WINDOW_MESSAGES) :
                               m.id = ret'.mid)
            k == Cardinality(OpenSuggestions(WINDOW_MESSAGES, root))
        IN  /\ \A m \in TreeOf(WINDOW_MESSAGES', root) :
                   /\ m.id = ret'.mid => m.hidden
                   /\ suggestion_count(WINDOW_MESSAGES', m) = k - 1
            /\ k - 1 > 0 =>
                   /\ \A m \in StoredMessages(WINDOW_MESSAGES) :
                          m.id # ret'.mid => m \in StoredMessages(WINDOW_MESSAGES')
                   /\ PrimaryBatchVisible(WINDOW_MESSAGES', root)
            /\ k - 1 = 0 => ~PrimaryBatchVisible(WINDOW_MESSAGES', root)]_vars

\* the second of the two suggestions of a diagnostic was accepted, after the
\* first one had left the batch on display, and the batch is dismissed
C12_Witness ==
    /\ ret.op = "_accept_replace"
    /\ ret.live
    /\ \E root \in {m.id : m \in StoredMessages(WINDOW_MESSAGES)} :
           /\ Cardinality({m \in TreeOf(WINDOW_MESSAGES, root) :
                              m.suggested_replacement # None /\ m.hidden}) = 2
           /\ ret.mid \in {m.id : m \in TreeOf(WINDOW_MESSAGES, root)}
           /\ ~PrimaryBatchVisible(WINDOW_MESSAGES, root)

\* C13: an accept request for a message without a live region applies no
\* replacement and leaves the store as it is: the message is not hidden,
\* the suggestion counts are unchanged and no batch is dismissed.
C13_StaleAcceptChangesNothing ==
    [][(ret'.op = "_accept_replace" /\ ~ret'.live) =>
        /\ ~ret'.replaced
        /\ WINDOW_MESSAGES' = WINDOW_MESSAGES
        /\ \A m \in StoredMessages(WINDOW_MESSAGES') :
               /\ m.id = ret'.mid => ~m.hidden
               /\ suggestion_count(WINDOW_MESSAGES', m)
                      = suggestion_count(WINDOW_MESSAGES, m)]_vars

\* a stale accept request for the second suggestion of a diagnostic whose
\* first suggestion is accepted already
C13_Witness ==
    /\ ret.op = "_accept_replace"
    /\ ~ret.live
    /\ \E m \in StoredMessages(WINDOW_MESSAGES) :
           /\ m.id = ret.mid
           /\ ~m.hidden
           /\ suggestion_count(WINDOW_MESSAGES, m) = 1
           /\ Cardinality({n \in TreeOf(WINDOW_MESSAGES, RootId(m)) :
                              n.suggested_replacement # None}) = 2

-----------------------------------------------------------------------------
(* Store lifecycle *)

\* C14: a soft clear of an existing store sets hidden and keeps the paths,
\* their batches in their order, the hidden flag of every message and the
\* cursor; without a store a soft clear creates none.
C14_SoftClearKeepsData ==
    [][(ret'.op = "clear_messages" /\ ret'.soft) =>
        IF WINDOW_MESSAGES.exists
        THEN /\ WINDOW_MESSAGES'.exists
             /\ WINDOW_MESSAGES'.hidden
             /\ WINDOW_MESSAGES'.paths = WINDOW_MESSAGES.paths
             /\ WINDOW_MESSAGES'.batch_index = WINDOW_MESSAGES.batch_index
        ELSE ~WINDOW_MESSAGES'.exists]_vars

\* a store with two paths, a positioned cursor and a hidden message was
\* soft-cleared
C14_Witness ==
    /\ ret.op = "clear_messages"
    /\ ret.soft
    /\ WINDOW_MESSAGES.exists
    /\ WINDOW_MESSAGES.hidden
    /\ Len(WINDOW_MESSAGES.paths) = 2
    /\ WINDOW_MESSAGES.batch_index # Unpositioned
    /\ \E m \in StoredMessages(WINDOW_MESSAGES) : m.hidden
    /\ \E m \in StoredMessages(WINDOW_MESSAGES) : ~m.hidden

\* C15: a store comes into being only with the first batch saved, with the
\* cursor (-1, -1) and hidden false; a record that is ignored, raises, yields
\* no path or is a duplicate creates none; a hard clear removes the store and
\* nothing else does; a store always holds a path and every path a batch.
C15_StoreLifecycle ==
    /\ [](WINDOW_MESSAGES.exists =>
            /\ Len(WINDOW_MESSAGES.paths) >= 1
            /\ \A p \in 1..Len(WINDOW_MESSAGES.paths) :
                   Len(WINDOW_MESSAGES.paths[p].batches) >= 1)
    /\ [][/\ (~WINDOW_MESSAGES.exists /\ WINDOW_MESSAGES'.exists) =>
                /\ ret'.op = "add_rust_messages"
                /\ ret'.outcome = "saved"
                /\ WINDOW_MESSAGES'.batch_index = Unpositioned
                /\ ~WINDOW_MESSAGES'.hidden
          /\ ret'.op = "add_rust_messages" =>
                IF ret'.outcome = "saved" THEN WINDOW_MESSAGES'.exists
                ELSE WINDOW_MESSAGES' = WINDOW_MESSAGES
          /\ (ret'.op = "clear_messages" /\ ~ret'.soft) => WINDOW_MESSAGES' = NoStore
          /\ (WINDOW_MESSAGES.exists /\ ~WINDOW_MESSAGES'.exists) =>
                (ret'.op = "clear_messages" /\ ~ret'.soft)]_vars

\* the first saved diagnostic, a global message shown at the target path,
\* has created the store
C15_Witness ==
    /\ ret.op = "add_rust_messages"
    /\ ret.outcome = "saved"
    /\ ret.primary.id[1] = 1
    /\ ret.primary.span = NoSpan
    /\ WINDOW_MESSAGES.exists
    /\ WINDOW_MESSAGES.batch_index = Unpositioned
    /\ ~WINDOW_MESSAGES.hidden
    /\ Len(WINDOW_MESSAGES.paths) = 1

\* C16: on a soft-cleared store, a next or prev request that finds a batch
\* and a list request set hidden back to false and leave every path and
\* batch as it is; a next or prev request that finds no batch leaves hidden
\* true.
C16_DismissIsRestorable ==
    [][(WINDOW_MESSAGES.exists /\ WINDOW_MESSAGES.hidden) =>
        /\ IsAdvance(ret') =>
               /\ WINDOW_MESSAGES'.hidden = (ret'.idx = <<>>)
               /\ WINDOW_MESSAGES'.paths = WINDOW_MESSAGES.paths
        /\ ret'.op = "list_messages" =>
               /\ ~WINDOW_MESSAGES'.hidden
               /\ WINDOW_MESSAGES'.paths = WINDOW_MESSAGES.paths
               /\ WINDOW_MESSAGES'.batch_index = WINDOW_MESSAGES.batch_index]_vars

\* a list request has put a soft-cleared store of two diagnostics on display
C16_Witness ==
    /\ ret.op = "list_messages"
    /\ ret.redrawn
    /\ Len(ret.jump_to) = 2
    /\ WINDOW_MESSAGES.exists
    /\ ~WINDOW_MESSAGES.hidden

-----------------------------------------------------------------------------
(* Saving *)

\* what tells a batch of the store from the others
BatchIdentities(winfo) ==
    IF ~winfo.exists THEN {}
    ELSE {<<winfo.paths[pos[1] + 1].path, BatchAt(winfo, pos).kind,
            BatchAt(winfo, pos).primary_id, BatchAt(winfo, pos).children[1].id>> :
             pos \in Positions(winfo)}

\* C17: ingestion into a store keeps the cursor and the hidden flag, keeps
\* the paths in place and the batches of every path as a prefix of what the
\* path holds afterwards, and what it adds are batches of the diagnostic
\* ingested, at least one when it is accepted; a batch leaves the store in no
\* step but a hard clear.
C17_IngestionOnlyAppends ==
    /\ [][(ret'.op = "add_rust_messages" /\ WINDOW_MESSAGES.exists) =>
            /\ WINDOW_MESSAGES'.exists
            /\ WINDOW_MESSAGES'.batch_index = WINDOW_MESSAGES.batch_index
            /\ WINDOW_MESSAGES'.hidden = WINDOW_MESSAGES.hidden
            /\ Len(WINDOW_MESSAGES'.paths) >= Len(WINDOW_MESSAGES.paths)
            /\ \A p \in 1..Len(WINDOW_MESSAGES.paths) :
                   /\ WINDOW_MESSAGES'.paths[p].path = WINDOW_MESSAGES.paths[p].path
                   /\ Len(WINDOW_MESSAGES'.paths[p].batches)
                          >= Len(WINDOW_MESSAGES.paths[p].batches)
                   /\ SubSeq(WINDOW_MESSAGES'.paths[p].batches, 1,
                             Len(WINDOW_MESSAGES.paths[p].batches))
                          = WINDOW_MESSAGES.paths[p].batches
            /\ \A ident \in BatchIdentities(WINDOW_MESSAGES')
                              \ BatchIdentities(WINDOW_MESSAGES) :
                   ident[3] = ret'.primary.id
            /\ ret'.outcome = "saved" =>
                   BatchIdentities(WINDOW_MESSAGES') # BatchIdentities(WINDOW_MESSAGES)
         ]_vars
    /\ [][~(ret'.op = "clear_messages" /\ ~ret'.soft) =>
            BatchIdentities(WINDOW_MESSAGES) \subseteq BatchIdentities(WINDOW_MESSAGES')
         ]_vars

\* a diagnostic was saved behind the batch of an earlier diagnostic on the
\* same line of the same file, the cursor standing on that batch
C17_Witness ==
    /\ ret.op = "add_rust_messages"
    /\ ret.outcome = "saved"
    /\ WINDOW_MESSAGES.batch_index # Unpositioned
    /\ \E p \in 1..Len(WINDOW_MESSAGES.paths) :
           LET batches == WINDOW_MESSAGES.paths[p].batches
           IN  /\ Len(batches) >= 2
               /\ batches[Len(batches)].primary_id = ret.primary.id
               /\ batches[1].primary_id # ret.primary.id
               /\ lineno(batches[1].children[1])
                      = lineno(batches[Len(batches)].children[1])
               /\ WINDOW_MESSAGES.batch_index = <<p - 1, 0>>

\* the region keys of the messages stored under the p-th path, one by one
RECURSIVE PathKeys(_)
PathKeys(batches) ==
    IF batches = <<>> THEN <<>>
    ELSE [i \in 1..Len(Head(batches).children) |->
             Head(batches).children[i].region_key]
         \o PathKeys(Tail(batches))

\* C18: the messages stored under one path have keys that differ from one
\* another; a message keeps its key as long as the store lasts, through
\* sorting, soft clear and hiding; a message that is saved gets a key larger
\* than every key of the messages found under its path.
C18_RegionKeysFreshPerPath ==
    /\ [](WINDOW_MESSAGES.exists =>
            \A p \in 1..Len(WINDOW_MESSAGES.paths) :
                LET keys == PathKeys(WINDOW_MESSAGES.paths[p].batches)
                IN  \A i, j \in 1..Len(keys) : i # j => keys[i] # keys[j])
    /\ [][(WINDOW_MESSAGES.exists /\ WINDOW_MESSAGES'.exists) =>
            /\ \A m \in StoredMessages(WINDOW_MESSAGES) :
                   \E n \in StoredMessages(WINDOW_MESSAGES') :
                       n.id = m.id /\ n.path = m.path /\ n.region_key = m.region_key
            /\ \A n \in StoredMessages(WINDOW_MESSAGES') :
                   (\A m \in StoredMessages(WINDOW_MESSAGES) : m.id # n.id) =>
                       \A m \in StoredMessages(WINDOW_MESSAGES) :
                           m.path = n.path => m.region_key < n.region_key
         ]_vars

\* a message was saved with the third key of a path whose earlier batches a
\* sorting pass had put in another order
C18_Witness ==
    /\ ret.op = "add_rust_messages"
    /\ ret.outcome = "saved"
    /\ \E p \in 1..Len(WINDOW_MESSAGES.paths) :
           LET batches == WINDOW_MESSAGES.paths[p].batches
           IN  /\ Len(batches) >= 3
               /\ batches[Len(batches)].primary_id = ret.primary.id
               /\ batches[Len(batches)].children[1].region_key = 2
               /\ batches[1].primary_id[1] > batches[2].primary_id[1]

-----------------------------------------------------------------------------
(* The message tree builder on its own: _collect_rust_messages is applied,  *)
(* as add_rust_messages applies it, to raw diagnostics whose `children`     *)
(* arrays are nested two deep.                                              *)

RawSpanAt(line, is_primary, label) ==
    RawSpan("src/a.rs", line, is_primary, label, None, <<>>)

\* the `spans` arrays of the records: none, a primary span, a labelled
\* secondary span, two primary spans, a secondary span before a primary one
SpanArrays(line) ==
    {<<>>,
     <<RawSpanAt(line, TRUE, None)>>,
     <<RawSpanAt(line, FALSE, "here")>>,
     <<RawSpanAt(line, TRUE, None), RawSpanAt(line + 1, TRUE, None)>>,
     <<RawSpanAt(line, FALSE, "here"), RawSpanAt(line + 1, TRUE, None)>>}

\* the sequences of at most n elements of S
SeqsUpTo(S, n) == UNION {[1..k -> S] : k \in 0..n}

\* the innermost children
RawGrandchildren ==
    {RawInfo("note", "required by this bound", NoCode, spans, <<>>) :
        spans \in {<<>>, <<RawSpanAt(21, TRUE, None)>>}}

\* a note on a source file of the standard library that is not on the disk
GoneNote ==
    RawInfo("note", "required by a bound in the trait", NoCode,
            <<RawSpan("src/gone.rs", 40, TRUE, None, None, <<>>)>>, <<>>)

RawChildren ==
    {RawInfo("help", "consider borrowing here", NoCode, spans, children) :
        spans \in {<<>>, <<RawSpanAt(11, TRUE, None)>>},
        children \in SeqsUpTo(RawGrandchildren, 1)}
    \cup
    {RawInfo("note", "expected due to this", NoCode, spans, <<>>) :
        spans \in {<<RawSpanAt(15, TRUE, None)>>,
                   <<RawSpanAt(15, FALSE, "here")>>}}
    \cup {GoneNote}

RawDiagnostics ==
    {RawInfo(level, "mismatched types",
             <<[code |-> "E0308", explanation |-> "long text"]>>,
             spans, children) :
        level \in {"error", "warning"},
        spans \in SpanArrays(3),
        children \in SeqsUpTo(RawChildren, MaxNested)}

BuildInit ==
    /\ WINDOW_MESSAGES = NoStore
    /\ THREADS = NoThread
    /\ cargo_config = NoConfig
    /\ cargo_build = NoExec
    /\ settings \in {[rust_sort_messages |-> TRUE,
                      rust_syntax_hide_warnings |-> h] : h \in BOOLEAN}
    /\ visited = <<>>
    /\ finished = FALSE
    /\ batched = <<>>
    /\ tree = NewMessage(<<1, 0>>)
    /\ \E info \in RawDiagnostics : ret = [op |-> "compiler-message", info |-> info]

\* lines 775-778 of add_rust_messages: the tree of one record is built
Build ==
    /\ ret.op = "compiler-message"
    /\ \E target_path \in TargetPaths, msg_cb \in BOOLEAN :
           LET st == _collect_rust_messages(BuilderStart(ret.info, 1), ret.info,
                                            target_path, msg_cb, settings)
           IN  /\ tree' = st.message
               /\ ret' = [op |-> "_collect_rust_messages", info |-> ret.info,
                          target_path |-> target_path, msg_cb |-> msg_cb,
                          cb |-> st.cb, n |-> st.n, exc |-> st.exc]
    /\ UNCHANGED <<WINDOW_MESSAGES, THREADS, settings, visited, finished, batched,
                   cargo_config, cargo_build>>

BuildNext == Build

SpecBuild == BuildInit /\ [][BuildNext]_vars

\* the is_primary spans of a raw diagnostic in the order the builder meets
\* them, each with the text and the level of the record it belongs to
RECURSIVE PrimarySpans(_)
RECURSIVE PrimarySpansOfAll(_)

PrimarySpans(info) ==
    SelectSeq([i \in 1..Len(info.spans) |->
                  [span |-> info.spans[i], text |-> info.message,
                   level |-> info.level, code |-> info.code]],
              LAMBDA e : e.span.is_primary)
    \o PrimarySpansOfAll(info.children)

PrimarySpansOfAll(children) ==
    IF children = <<>> THEN <<>>
    ELSE PrimarySpans(Head(children)) \o PrimarySpansOfAll(Tail(children))

\* the record and the records nested in it all have spans
RECURSIVE EveryRecordHasSpans(_)
EveryRecordHasSpans(info) ==
    /\ info.spans # <<>>
    /\ \A i \in 1..Len(info.children) : EveryRecordHasSpans(info.children[i])

\* the top-level record is as the builder expects it: it has a primary span
\* unless it has no spans
ExpectedFormat(info) ==
    info.spans = <<>> \/ \E i \in 1..Len(info.spans) : info.spans[i].is_primary

\* the builder went through a record of the expected format, the settings
\* hide no warnings, and nothing was placed by the rule for records without
\* spans
BuiltFromSpans ==
    /\ ret.op = "_collect_rust_messages"
    /\ ~ret.exc
    /\ ~settings.rust_syntax_hide_warnings
    /\ ExpectedFormat(ret.info)
    /\ ret.target_path = None \/ EveryRecordHasSpans(ret.info)

\* the primary Message holds what the entry `e` of PrimarySpans sets
SetFrom(m, e) ==
    /\ m.path = make_span_path(e.span)
    /\ m.span = make_span_region(e.span)
    /\ m.text = e.text
    /\ m.level = level_from_str(e.level)
    /\ m.code = IF e.code # <<>> THEN e.code[1].code ELSE None

\* the entry `e` of PrimarySpans is a child note of the Message
NoteOf(m, e) ==
    \E i \in 1..Len(m.children) :
        /\ m.children[i].path = make_span_path(e.span)
        /\ m.children[i].span = make_span_region(e.span)
        /\ m.children[i].text = e.text
        /\ m.children[i].level = level_from_str(e.level)

\* C19: when a diagnostic has is_primary spans, the primary Message holds the
\* path, span, text, level and code of the first of them, and each later one
\* is a child note.
C19_FirstPrimarySpanWins ==
    (BuiltFromSpans /\ PrimarySpans(ret.info) # <<>>) =>
        /\ SetFrom(tree, PrimarySpans(ret.info)[1])
        /\ \A k \in 2..Len(PrimarySpans(ret.info)) :
               NoteOf(tree, PrimarySpans(ret.info)[k])

\* C20: every child of a tree the builder made is not primary, has no
\* children and has the primary Message of the tree as its parent, and that
\* Message is primary and has no parent.
C20_FlattenedToOneLevel ==
    ret.op = "_collect_rust_messages" =>
        /\ tree.primary
        /\ tree.parent = <<>>
        /\ \A i \in 1..Len(tree.children) :
               /\ ~tree.children[i].primary
               /\ tree.children[i].children = <<>>
               /\ tree.children[i].parent = <<tree.id>>

\* a tree with notes from the spans of the diagnostic, of a child and of a
\* child of a child
C20_Witness ==
    /\ ret.op = "_collect_rust_messages"
    /\ \E i, j, k \in 1..Len(tree.children) :
           /\ tree.children[i].text = "mismatched types"
           /\ tree.children[j].text = "consider borrowing here"
           /\ tree.children[k].text = "required by this bound"

\* the tree the builder makes of a record
BuiltTree(info, target_path, msg_cb) ==
    _collect_rust_messages(BuilderStart(info, 1), info, target_path, msg_cb,
                           settings).message

\* the top-level record places the primary Message itself
TopSetsPrimary(info, target_path) ==
    \/ \E i \in 1..Len(info.spans) : info.spans[i].is_primary
    \/ info.spans = <<>> /\ ~IsBoilerplate(info.message) /\ target_path # None

\* C21: no two children of a built tree are similar; and when the record
\* places the primary Message itself, giving its last child a second time
\* makes only candidates similar to attached children, and the tree built is
\* the same.
C21_NoSimilarChildren ==
    ret.op = "_collect_rust_messages" =>
        /\ \A i, j \in 1..Len(tree.children) :
               i # j => ~is_similar(tree.children[i], tree.children[j])
        /\ (TopSetsPrimary(ret.info, ret.target_path) /\ ret.info.children # <<>>) =>
               BuiltTree([ret.info EXCEPT !.children =
                             Append(@, @[Len(ret.info.children)])],
                         ret.target_path, ret.msg_cb) = tree

\* a record whose two children are the same note on a primary span: two
\* Messages were created besides the primary one, one of them is attached
C21_Witness ==
    /\ ret.op = "_collect_rust_messages"
    /\ Len(ret.info.spans) = 1
    /\ ret.info.spans[1].is_primary
    /\ Len(ret.info.children) = 2
    /\ ret.info.children[1] = ret.info.children[2]
    /\ ret.info.children[1].children = <<>>
    /\ Len(ret.info.children[1].spans) = 1
    /\ ret.info.children[1].spans[1].is_primary
    /\ ret.n = 2
    /\ Len(tree.children) = 1

-----------------------------------------------------------------------------
(* Diagnostics without spans: the session-global notes *)

\* a global message whose child note has a primary span
DiagGlobalNoted ==
    RawInfo("error", "linking failed", NoCode, <<>>,
            <<RawInfo("note", "the symbol is used here", NoCode,
                      <<Plain("src/a.rs", 7)>>, <<>>)>>)

GlobalRecords ==
    {[reason |-> "compiler-message", message |-> d] :
        d \in {DiagGlobal, DiagAbort, DiagGlobalNoted, DiagErrA, DiagNoteA}}

IngestGlobal ==
    \E raw \in GlobalRecords, target_path \in TargetPaths, msg_cb \in BOOLEAN :
        LET r == add_rust_messages(WINDOW_MESSAGES, raw, target_path, msg_cb,
                                   settings)
        IN  /\ NumDiags(WINDOW_MESSAGES) < MaxDiags
            /\ WINDOW_MESSAGES' = r.winfo
            /\ ret' = [op |-> "add_rust_messages", outcome |-> r.outcome,
                       cb |-> r.cb, primary |-> r.primary, msg_cb |-> msg_cb,
                       info |-> raw.message, target_path |-> target_path]
            /\ visited' = <<>>
            /\ finished' = (finished /\ r.outcome # "saved")
            /\ UNCHANGED <<THREADS, settings, tree, batched, cargo_config, cargo_build>>

GlobalNext == IngestGlobal \/ Finished \/ HardClear

SpecGlobal == Init /\ [][GlobalNext]_vars

\* the batches of the store whose first message has no span
SpanlessBatches(winfo) ==
    {pos \in Positions(winfo) : first(BatchAt(winfo, pos)).span = NoSpan}

\* C22: a top-level record without spans, when its message is a summary
\* line, changes no store and hands nothing to the sink; otherwise, with a
\* target path, it makes a primary Message at that path with its text and no
\* span, whose line is the sentinel and which the sort pass leaves behind the
\* batches of its level in the file; otherwise it changes no store and
\* hands one Message with its text to the sink, when there is a sink.
C22_SpanlessIsGlobalNote ==
    /\ [][(ret'.op = "add_rust_messages" /\ ret'.info.spans = <<>>) =>
            IF IsBoilerplate(ret'.info.message)
            THEN WINDOW_MESSAGES' = WINDOW_MESSAGES /\ ret'.cb = <<>>
            ELSE IF ret'.target_path # None
            THEN /\ ret'.outcome \in {"saved", "duplicate"}
                 /\ ret'.primary.path = ret'.target_path
                 /\ ret'.primary.span = NoSpan
                 /\ lineno(ret'.primary) = NoLine
                 /\ ret'.primary.text = ret'.info.message
                 /\ ret'.primary.level = level_from_str(ret'.info.level)
                 /\ ret'.outcome = "saved" =>
                        \E pos \in SpanlessBatches(WINDOW_MESSAGES') :
                            /\ BatchAt(WINDOW_MESSAGES', pos).kind = "PrimaryBatch"
                            /\ BatchAt(WINDOW_MESSAGES', pos).primary_id = ret'.primary.id
                            /\ WINDOW_MESSAGES'.paths[pos[1] + 1].path = ret'.target_path
            ELSE /\ WINDOW_MESSAGES' = WINDOW_MESSAGES
                 /\ Len(ret'.cb) = IF ret'.msg_cb THEN 1 ELSE 0
                 /\ \A i \in 1..Len(ret'.cb) :
                        /\ ret'.cb[i].text = ret'.info.message
                        /\ ret'.cb[i].path = None
         ]_vars
    /\ [](finished =>
            \A pos \in SpanlessBatches(WINDOW_MESSAGES) :
                \A later \in Positions(WINDOW_MESSAGES) :
                    (later[1] = pos[1] /\ later[2] > pos[2]) =>
                        \/ first(BatchAt(WINDOW_MESSAGES, later)).span = NoSpan
                        \/ first(BatchAt(WINDOW_MESSAGES, later)).level
                               # first(BatchAt(WINDOW_MESSAGES, pos)).level)

-----------------------------------------------------------------------------
(* Notes on files that do not exist *)

\* what the builder hands to the sink for a record
BuiltSink(info, target_path, msg_cb) ==
    _collect_rust_messages(BuilderStart(info, 1), info, target_path, msg_cb,
                           settings).cb

\* the record with one more child, the note on the missing file
WithGoneNote(info) == [info EXCEPT !.children = Append(@, GoneNote)]

\* the Message the sink gets for that note: path and text, no span, no parent
SunkGoneNote(n) ==
    [NewMessage(<<1, n>>) EXCEPT
        !.text = GoneNote.message,
        !.level = "note",
        !.primary = FALSE,
        !.path = make_span_path(GoneNote.spans[1])]

-----------------------------------------------------------------------------
(* The sink *)

\* the places of the Message with the id `id` in what the sink got
SinkCalls(cb, id) == {i \in 1..Len(cb) : cb[i].id = id}

\* C24: when a diagnostic is saved and a sink was given, the sink got every
\* Message of the diagnostic that is in the store, each of them once,
\* whether or not the store is hidden.
C24_SinkGetsEverySavedMessage ==
    [][(ret'.op = "add_rust_messages" /\ ret'.outcome = "saved" /\ ret'.msg_cb) =>
          \A m \in StoredMessages(WINDOW_MESSAGES') :
              RootId(m) = ret'.primary.id =>
                  Cardinality(SinkCalls(ret'.cb, m.id)) = 1
      ]_vars

-----------------------------------------------------------------------------
(* Producers and consumers of the store *)

\* the handlers that read the store for the user
ConsumerOps == {"show_next_message", "show_prev_message", "list_messages"}

\* C25: when the last thing done to an existing store is the ingestion of a
\* diagnostic, messages_finished not having been called yet, the next thing
\* done is not a next/prev navigation and not a list-all request.
C25_NoConsumerDuringIngestion ==
    [][(ret.op = "add_rust_messages" /\ WINDOW_MESSAGES.exists) =>
          ret'.op \notin ConsumerOps]_vars

-----------------------------------------------------------------------------
(* Builds: the cargo_exec command starts a CargoExecThread, whose run()     *)
(* clears the store and runs the compiler process.  The registry of         *)
(* rust_thread (one thread per window, the thread of an earlier build is    *)
(* terminated when a new one is started) and the listener that feeds the    *)
(* output of the process to the store are outside src/.                     *)
(* THREADS is the thread of the window:                                     *)
(*   build  the number of the build                                         *)
(*   pc     "none"; "start" before run(); "process" while the process runs; *)
(*          "ended", "nocmd", "terminated" when the thread is over          *)
(*   sent   the records of the process given to add_rust_messages           *)
(*   found  the diagnostics run() found in the store                        *)

\* CargoExecCommand._run: t.start()
StartBuild ==
    /\ THREADS.build < MaxBuilds
    /\ THREADS' = [build |-> THREADS.build + 1, pc |-> "start", sent |-> 0,
                   found |-> 0]
    /\ ret' = [op |-> "cargo_exec"]
    /\ UNCHANGED <<WINDOW_MESSAGES, settings, visited, finished, tree, batched,
                   cargo_config, cargo_build>>

\* CargoExecThread.run up to the start of the process
ThreadRun ==
    /\ THREADS.pc = "start"
    /\ \E cmd \in BOOLEAN :
           IF ~cmd
           THEN /\ THREADS' = [THREADS EXCEPT !.pc = "nocmd"]
                /\ ret' = [op |-> "get_command"]
                /\ UNCHANGED <<WINDOW_MESSAGES, visited, finished>>
           ELSE /\ THREADS' = [THREADS EXCEPT !.pc = "process",
                                  !.found = NumDiags(WINDOW_MESSAGES)]
                /\ WINDOW_MESSAGES' = clear_messages(WINDOW_MESSAGES, FALSE)
                /\ ret' = [op |-> "clear_messages", soft |-> FALSE]
                /\ visited' = <<>>
                /\ finished' = FALSE
    /\ UNCHANGED <<settings, tree, batched, cargo_config, cargo_build>>

\* a record of the output of the process reaches add_rust_messages
ProcessOutput ==
    \E raw \in SuggestionRecords, target_path \in TargetPaths, msg_cb \in BOOLEAN :
        LET r == add_rust_messages(WINDOW_MESSAGES, raw, target_path, msg_cb,
                                   settings)
        IN  /\ THREADS.pc = "process"
            /\ THREADS.sent < MaxDiags
            /\ THREADS' = [THREADS EXCEPT !.sent = @ + 1]
            /\ WINDOW_MESSAGES' = r.winfo
            /\ ret' = [op |-> "add_rust_messages", outcome |-> r.outcome,
                       cb |-> r.cb, primary |-> r.primary, msg_cb |-> msg_cb]
            /\ visited' = <<>>
            /\ finished' = (finished /\ r.outcome # "saved")
            /\ UNCHANGED <<settings, tree, batched, cargo_config, cargo_build>>

\* the process is over (p.wait() returns) and the store is finalized
ProcessEnd ==
    /\ THREADS.pc = "process"
    /\ THREADS' = [THREADS EXCEPT !.pc = "ended"]
    /\ WINDOW_MESSAGES' = _sort_messages(WINDOW_MESSAGES, settings)
    /\ ret' = [op |-> "messages_finished"]
    /\ visited' = <<>>
    /\ finished' = (finished \/
                    (WINDOW_MESSAGES.exists /\ settings.rust_sort_messages))
    /\ UNCHANGED <<settings, tree, batched, cargo_config, cargo_build>>

\* RustCancelCommand: the thread of the window is terminated
Cancel ==
    /\ THREADS.pc = "process"
    /\ THREADS' = [THREADS EXCEPT !.pc = "terminated"]
    /\ ret' = [op |-> "rust_cancel"]
    /\ UNCHANGED <<WINDOW_MESSAGES, settings, visited, finished, tree, batched,
                   cargo_config, cargo_build>>

BuildsNext ==
    \/ StartBuild
    \/ ThreadRun
    \/ ProcessOutput
    \/ ProcessEnd
    \/ Cancel
    \/ Dismiss
    \/ ShowNext

SpecBuilds == Init /\ [][BuildsNext]_vars

-----------------------------------------------------------------------------
(* The list of all messages *)

\* the positions of the PrimaryBatches of the store
PrimaryPositions(winfo) ==
    {pos \in Positions(winfo) : BatchAt(winfo, pos).kind = "PrimaryBatch"}

\* C27: the list made for a store has the positions of its PrimaryBatches,
\* all of them and nothing else, in the order of the store; making the list
\* and showing an entry of it leave the cursor, the paths and the batches as
\* they are.
C27_ListIsPrimaryBatchesInOrder ==
    /\ [][(ret'.op = "list_messages" /\ WINDOW_MESSAGES.exists) =>
            /\ {ret'.jump_to[i] : i \in 1..Len(ret'.jump_to)}
                   = PrimaryPositions(WINDOW_MESSAGES)
            /\ \A i, j \in 1..Len(ret'.jump_to) :
                   i < j => Before(ret'.jump_to[i], ret'.jump_to[j])
            /\ WINDOW_MESSAGES'.batch_index = WINDOW_MESSAGES.batch_index
            /\ WINDOW_MESSAGES'.paths = WINDOW_MESSAGES.paths
         ]_vars
    /\ [][ret'.op = "list_jump" =>
            /\ WINDOW_MESSAGES'.batch_index = WINDOW_MESSAGES.batch_index
            /\ WINDOW_MESSAGES'.paths = WINDOW_MESSAGES.paths
         ]_vars

\* an entry of the list was shown that is not where the cursor stands, in a
\* store of two paths with a ChildBatch that the list left out
C27_Witness ==
    /\ ret.op = "list_jump"
    /\ WINDOW_MESSAGES.batch_index # Unpositioned
    /\ WINDOW_MESSAGES.batch_index # ret.idx
    /\ ret.idx[1] = 1
    /\ Positions(WINDOW_MESSAGES) # PrimaryPositions(WINDOW_MESSAGES)

-----------------------------------------------------------------------------
(* The labels of the cross links *)

\* what a label starts with: the arrow towards t in the file of m, or the
\* base name of the file of t
LabelHead(m, t) ==
    IF m.path = t.path
    THEN IF LineOf(t) > LineOf(m) THEN "down" ELSE "up"
    ELSE BaseName(t.path)

\* the labels of the links between the primary Message and the k-th batch:
\* <<m, t, label>> for a link from m to t
LinkLabels(k) ==
    {<<tree, batched[k].children[1], batched[1].child_links[i][2]>> :
        i \in LinksTo(batched[1], batched[k])}
    \cup (IF batched[k].back_link # <<>>
          THEN {<<batched[k].children[1], tree, batched[k].back_link[2]>>}
          ELSE {})

\* C28 as stated: in one file the label is the arrow and the line number of
\* t; across files it is the base name, and the line number when t has a span.
C28_LabelAsStated ==
    batched # <<>> =>
        \A k \in 2..Len(batched) : \A l \in LinkLabels(k) :
            /\ l[3][1] = LabelHead(l[1], l[2])
            /\ Len(l[3]) = IF l[1].path = l[2].path \/ l[2].span # NoSpan
                           THEN 2 ELSE 1
            /\ l[2].span # NoSpan => l[3][2] = l[2].span[2][1] + 1

\* C28: the label is the arrow towards t when m and t are in one file, else
\* the base name of the file of t; the line number of t, counted from 1,
\* follows when t has a span, and nothing follows when it has none, in the
\* same file as well.
C28_LabelHasLineOnlyWithSpan ==
    batched # <<>> =>
        \A k \in 2..Len(batched) : \A l \in LinkLabels(k) :
            l[3] = IF l[2].span # NoSpan
                   THEN <<LabelHead(l[1], l[2]), l[2].span[2][1] + 1>>
                   ELSE <<LabelHead(l[1], l[2])>>

\* a primary Message without span and a note 7 lines down in its file: the
\* link to the note is the up arrow and 7, the link back the down arrow
\* alone; a note in the other file is linked by the name of the file
C28_Witness ==
    /\ Len(batched) = 3
    /\ tree.span = NoSpan
    /\ batched[1].child_links[1][2] = <<"up", 7>>
    /\ batched[2].back_link # <<>>
    /\ batched[2].back_link[2] = <<"down">>
    /\ batched[1].child_links[2][2] = <<"b.rs", 12>>

-----------------------------------------------------------------------------
(* The order of the batches *)

\* the place of the first child of the primary Message with the key `key`
FirstOccurrence(key) ==
    CHOOSE i \in 1..Len(tree.children) :
        /\ KeyOf(tree.children[i]) = key
        /\ \A j \in 1..(i - 1) : KeyOf(tree.children[j]) # key

\* the keys of the children that are not the key of the primary Message
ChildKeys ==
    {KeyOf(tree.children[i]) : i \in 1..Len(tree.children)} \ {KeyOf(tree)}

\* C29: the first batch is the PrimaryBatch; the batches behind it are
\* ChildBatches, one for each key of the children other than the key of the
\* primary Message, in the order in which the keys first occur among the
\* children.
C29_BatchesInFirstOccurrenceOrder ==
    batched # <<>> =>
        /\ batched[1].kind = "PrimaryBatch"
        /\ batched[1].children[1].id = tree.id
        /\ Len(batched) = 1 + Cardinality(ChildKeys)
        /\ \A k \in 2..Len(batched) :
               /\ batched[k].kind = "ChildBatch"
               /\ KeyOf(first(batched[k])) \in ChildKeys
        /\ \A k, l \in 2..Len(batched) :
               k < l => FirstOccurrence(KeyOf(first(batched[k])))
                            < FirstOccurrence(KeyOf(first(batched[l])))

\* the key of the first child comes again behind the key of the second, and
\* the keys are not in the order of their lines: first the batch of the first
\* and third child, then the batch of the second
C29_Witness ==
    /\ Len(batched) = 3
    /\ Len(tree.children) = 3
    /\ KeyOf(tree.children[1]) = KeyOf(tree.children[3])
    /\ KeyOf(tree.children[2])[1] = KeyOf(tree.children[1])[1]
    /\ KeyOf(tree.children[2])[2] < KeyOf(tree.children[1])[2]
    /\ Ids(batched[2].children) = <<tree.children[1].id, tree.children[3].id>>
    /\ Ids(batched[3].children) = <<tree.children[2].id>>

-----------------------------------------------------------------------------
(* The sort pass switched off *)

\* C30: with rust_sort_messages off, messages_finished leaves the store as
\* it is: the paths and their order, the batches of every path and their
\* order, the cursor and the hidden flag.
C30_DisabledSortLeavesStore ==
    [][(ret'.op = "messages_finished" /\ ~settings.rust_sort_messages) =>
          WINDOW_MESSAGES' = WINDOW_MESSAGES]_vars

\* messages_finished was called with the sort pass off on a hidden store
\* with a cursor, which the sort pass would have put in another order
C30_Witness ==
    /\ ret.op = "messages_finished"
    /\ ~settings.rust_sort_messages
    /\ WINDOW_MESSAGES.exists
    /\ WINDOW_MESSAGES.hidden
    /\ WINDOW_MESSAGES.batch_index # Unpositioned
    /\ _sort_messages(WINDOW_MESSAGES, [settings EXCEPT !.rust_sort_messages = TRUE])
           # WINDOW_MESSAGES

-----------------------------------------------------------------------------
(* Spans in macros and in other crates: the builder and its resolver on      *)
(* raw diagnostics whose spans carry expansion chains and lie in files      *)
(* outside the window's folders.                                            *)

\* span['expansion']: <<>> for None, else a one-element sequence
Expansion(span, macro_decl_name, def_site_span) ==
    <<[span |-> span, macro_decl_name |-> macro_decl_name,
       def_site_span |-> def_site_span]>>

\* the spans without expansion: in the crate, in a crate on the disk, in
\* a crate that is not on the disk
ChainEnds ==
    {RawSpan(f, 7, FALSE, None, None, <<>>) :
        f \in {"src/a.rs", "/ext/m.rs", "/gone/std.rs"}}

\* the spans one expansion away from their end
ChainsOfOne ==
    {RawSpan(f, 12, FALSE, None, None, Expansion(e, name, def)) :
        f \in {"<m macros>", "/ext/m.rs", "src/b.rs"},
        e \in ChainEnds,
        name \in {"vec!", "#[derive(Eq)]"},
        def \in {<<>>, <<Plain("/ext/m.rs", 9)>>, <<Plain("src/a.rs", 30)>>}}

\* the spans two expansions away from their end
ChainsOfTwo ==
    {RawSpan("<m macros>", 14, FALSE, None, None, Expansion(c, "format!", <<>>)) :
        c \in ChainsOfOne}

\* a span of a record: a chain with the attributes of the span itself
MacroSpans ==
    {[c EXCEPT !.is_primary = a[1], !.label = a[2],
               !.suggested_replacement = a[3]] :
        c \in ChainEnds \cup ChainsOfOne \cup ChainsOfTwo,
        a \in {<<TRUE, None, None>>, <<TRUE, "in this macro", "vec![]">>,
               <<FALSE, "in this macro", "vec![]">>}}

\* the primary span in the crate that the records carry next to a macro span
LocalPrimary == RawSpan("src/a.rs", 3, TRUE, "expected i32", "0i32", <<>>)

\* a note under the record, on a span in another crate
MacroNotes ==
    {RawInfo("note", "this macro is defined elsewhere", NoCode, <<sp>>, <<>>) :
        sp \in {[c EXCEPT !.is_primary = TRUE] : c \in ChainEnds}}

MacroDiagnostics ==
    {RawInfo(level, "mismatched types", NoCode, spans, children) :
        level \in {"error", "warning"},
        spans \in UNION {{<<sp>>, <<sp, LocalPrimary>>, <<LocalPrimary, sp>>} :
                            sp \in MacroSpans},
        children \in SeqsUpTo(MacroNotes, 1)}

MacroInit ==
    /\ WINDOW_MESSAGES = NoStore
    /\ THREADS = NoThread
    /\ cargo_config = NoConfig
    /\ cargo_build = NoExec
    /\ settings \in {[rust_sort_messages |-> TRUE,
                      rust_syntax_hide_warnings |-> h] : h \in BOOLEAN}
    /\ visited = <<>>
    /\ finished = FALSE
    /\ batched = <<>>
    /\ tree = NewMessage(<<1, 0>>)
    /\ \E info \in MacroDiagnostics : ret = [op |-> "compiler-message", info |-> info]

\* line 979 (and 1036): find_span_r(span) for a span of the record
Resolve ==
    /\ ret.op = "compiler-message"
    /\ \E i \in 1..Len(ret.info.spans) :
           ret' = [op |-> "find_span_r", info |-> ret.info,
                   span |-> ret.info.spans[i],
                   result |-> find_span_r(ret.info.spans[i], <<>>)]
    /\ UNCHANGED <<WINDOW_MESSAGES, THREADS, settings, visited, finished,
                   tree, batched, cargo_config, cargo_build>>

MacroNext == Build \/ Resolve

SpecMacro == MacroInit /\ [][MacroNext]_vars

\* the number of expansions between a span and the end of its chain
RECURSIVE ChainLength(_)
ChainLength(span) ==
    IF span.expansion = <<>> THEN 0
    ELSE 1 + ChainLength(span.expansion[1].span)

\* the span k expansions away from `span`
RECURSIVE ChainSpan(_, _)
ChainSpan(span, k) ==
    IF k = 0 THEN span ELSE ChainSpan(span.expansion[1].span, k - 1)

\* C31: resolving a span with a finite expansion chain gives the span at the
\* end of the chain, the first one without expansion, and the expansion
\* record that directly contains that span; a span without expansion gives
\* itself and no expansion.
C31_ResolveGivesChainEnd ==
    ret.op = "find_span_r" =>
        LET n == ChainLength(ret.span)
        IN  /\ ret.result[1] = ChainSpan(ret.span, n)
            /\ ret.result[1].expansion = <<>>
            /\ \A k \in 0..(n - 1) : ChainSpan(ret.span, k).expansion # <<>>
            /\ IF n = 0
               THEN ret.result = <<ret.span, <<>>>>
               ELSE /\ ret.result[2] = ChainSpan(ret.span, n - 1).expansion
                    /\ ret.result[2][1].span = ret.result[1]

\* a span two expansions away from its end was resolved: the expansion
\* returned is the second one, not the span's own
C31_Witness ==
    /\ ret.op = "find_span_r"
    /\ ChainLength(ret.span) = 2
    /\ ret.result[2] # <<>>
    /\ ret.result[2] # ret.span.expansion
    /\ ret.result[1] \in ChainEnds

-----------------------------------------------------------------------------
(* find_span_r frame by frame.  The span dicts of one record are numbered    *)
(* 1..MaxSpans; expansion[i] is the number of the dict that span i names as  *)
(* span['expansion']['span'], 0 when span i has no expansion.  A dict built *)
(* in memory can name itself or an earlier dict.                             *)

\* the number of span dicts of a record that is resolved frame by frame
MaxSpans == 3

\* the interpreter's limit on nested calls, scaled to the model
RecursionLimit == 5

\* find_span_r(span): the first frame
ResolveInit ==
    /\ WINDOW_MESSAGES = NoStore
    /\ THREADS = NoThread
    /\ cargo_config = NoConfig
    /\ cargo_build = NoExec
    /\ settings = [rust_sort_messages |-> TRUE, rust_syntax_hide_warnings |-> FALSE]
    /\ visited = <<>>
    /\ finished = FALSE
    /\ batched = <<>>
    /\ tree = NewMessage(<<1, 0>>)
    /\ \E expansion \in [1..MaxSpans -> 0..MaxSpans], first_span \in 1..MaxSpans :
           ret = [op |-> "find_span_r", expansion |-> expansion,
                  first_span |-> first_span, span |-> first_span,
                  context |-> 0, frames |-> 1]

\* lines 965-966: the span has an expansion, find_span_r calls itself
ResolveCall ==
    /\ ret.op = "find_span_r"
    /\ ret.expansion[ret.span] # 0
    /\ ret.frames < RecursionLimit
    /\ ret' = [ret EXCEPT !.span = ret.expansion[ret.span],
                          !.context = ret.span,
                          !.frames = @ + 1]
    /\ UNCHANGED <<WINDOW_MESSAGES, THREADS, settings, visited, finished,
                   tree, batched, cargo_config, cargo_build>>

\* the call of lines 965-966 when the interpreter allows no further frame
ResolveOverflow ==
    /\ ret.op = "find_span_r"
    /\ ret.expansion[ret.span] # 0
    /\ ret.frames = RecursionLimit
    /\ ret' = [ret EXCEPT !.op = "RecursionError"]
    /\ UNCHANGED <<WINDOW_MESSAGES, THREADS, settings, visited, finished,
                   tree, batched, cargo_config, cargo_build>>

\* lines 967-968: the span has no expansion, it is returned with the
\* expansion of the frame
ResolveReturn ==
    /\ ret.op = "find_span_r"
    /\ ret.expansion[ret.span] = 0
    /\ ret' = [ret EXCEPT !.op = "returned"]
    /\ UNCHANGED <<WINDOW_MESSAGES, THREADS, settings, visited, finished,
                   tree, batched, cargo_config, cargo_build>>

ResolveNext == ResolveCall \/ ResolveOverflow \/ ResolveReturn

SpecResolve == ResolveInit /\ [][ResolveNext]_vars

\* the dicts that are reached from span i in at most k expansions
RECURSIVE ReachedFrom(_, _, _)
ReachedFrom(expansion, i, k) ==
    IF k = 0 \/ expansion[i] = 0 THEN {i}
    ELSE {i} \cup ReachedFrom(expansion, expansion[i], k - 1)

\* the chain that starts at span i comes back to one of its own dicts
IsCyclic(expansion, i) ==
    \A j \in ReachedFrom(expansion, i, MaxSpans) : expansion[j] # 0

\* C32: resolving a span ends for every record, a record whose expansion
\* chain is cyclic included: the resolver follows no more expansions than
\* the record has span dicts and does not run into the limit of the
\* interpreter.
C32_ResolveIsBounded ==
    /\ ret.op \in {"find_span_r", "returned", "RecursionError"} =>
           ret.frames - 1 < MaxSpans
    /\ ret.op # "RecursionError"

\* the same bound for the records whose chain is not cyclic
C32_FiniteChainsAreBounded ==
    (/\ ret.op \in {"find_span_r", "returned", "RecursionError"}
     /\ ~IsCyclic(ret.expansion, ret.first_span)) =>
        /\ ret.frames - 1 < MaxSpans
        /\ ret.op # "RecursionError"

-----------------------------------------------------------------------------
(* Where the note for a span in another crate is put *)

\* a record of the expected format was collected: it was not dropped as a
\* warning and no exception left the builder
Collected ==
    /\ ret.op = "_collect_rust_messages"
    /\ ~ret.exc
    /\ (ret.info.level = "error" \/ ~settings.rust_syntax_hide_warnings)
    /\ ExpectedFormat(ret.info)

\* the span resolves to a file outside the folders that is not on the disk
Unlocatable(span) ==
    /\ _is_external(span.file_name)
    /\ _is_external(Updated(span).file_name)
    /\ ~PathExists(Updated(span).file_name)

\* the text of the note that names the crate of the span
CrateNoteText(span) ==
    "Errors occurred in " \o Updated(span).file_name \o " from external crate"

\* a child of the tree with this text and level lies at path and region
AnchoredAt(text, level, path, region) ==
    \E k \in 1..Len(tree.children) :
        /\ tree.children[k].text = text
        /\ tree.children[k].level = level
        /\ tree.children[k].path = path
        /\ tree.children[k].span = region

\* no child of the tree has this text and level; the sink, if there is one,
\* got a Message with them
OnlyInSink(text, level) ==
    /\ ~\E k \in 1..Len(tree.children) :
           tree.children[k].text = text /\ tree.children[k].level = level
    /\ ret.msg_cb =>
           \E k \in 1..Len(ret.cb) :
               ret.cb[k].text = text /\ ret.cb[k].level = level

\* the primary spans of the record other than its i-th span
OtherPrimaries(info, i) ==
    {j \in 1..Len(info.spans) : j # i /\ info.spans[j].is_primary}

\* what is asked for the i-th span of the top-level record
TopLevelAnchor(info, i) ==
    IF OtherPrimaries(info, i) # {}
    THEN \E j \in OtherPrimaries(info, i) :
             AnchoredAt(CrateNoteText(info.spans[i]), info.level,
                        make_span_path(info.spans[j]),
                        make_span_region(info.spans[j]))
    ELSE IF ret.target_path # None
    THEN AnchoredAt(CrateNoteText(info.spans[i]), info.level,
                    ret.target_path, NoSpan)
    ELSE OnlyInSink(CrateNoteText(info.spans[i]), info.level)

\* what is asked for the span of a note under a record that has a place on
\* the disk
NestedAnchor(child) ==
    AnchoredAt(CrateNoteText(child.spans[1]), child.level, tree.path, tree.span)

\* C33: the note for a span that resolves to a place in another crate that
\* cannot be shown lies, in this order of preference, at the span of the
\* parent for a nested note, else at another primary span of the same
\* diagnostic, else at the target root file without line, else in no file
\* and only in the sink.
C33_ExternalNoteAnchor ==
    Collected =>
        /\ \A i \in 1..Len(ret.info.spans) :
               Unlocatable(ret.info.spans[i]) => TopLevelAnchor(ret.info, i)
        /\ \A c \in 1..Len(ret.info.children) :
               (Unlocatable(ret.info.children[c].spans[1]) /\ PathExists(tree.path))
                   => NestedAnchor(ret.info.children[c])

\* the same for the spans that are not the first primary span of their
\* record
C33_AnchorUnlessFirstPrimary ==
    Collected =>
        /\ \A i \in 1..Len(ret.info.spans) :
               (/\ Unlocatable(ret.info.spans[i])
                /\ ~(/\ ret.info.spans[i].is_primary
                     /\ \A j \in 1..(i - 1) : ~ret.info.spans[j].is_primary))
                   => TopLevelAnchor(ret.info, i)
        /\ \A c \in 1..Len(ret.info.children) :
               (Unlocatable(ret.info.children[c].spans[1]) /\ PathExists(tree.path))
                   => NestedAnchor(ret.info.children[c])

-----------------------------------------------------------------------------
(* What a relocated span keeps *)

\* the note for the i-th span of the record lies at its j-th span
RelocatedOnto(info, i, j) ==
    /\ j \in OtherPrimaries(info, i)
    /\ AnchoredAt(CrateNoteText(info.spans[i]), info.level,
                  make_span_path(info.spans[j]),
                  make_span_region(info.spans[j]))

\* the children of the tree at the place of `span` that carry its label
LabelNotes(span, level) ==
    {k \in 1..Len(tree.children) :
        /\ tree.children[k].text = span.label
        /\ tree.children[k].level = level
        /\ tree.children[k].suggested_replacement = None
        /\ tree.children[k].path = make_span_path(span)
        /\ tree.children[k].span = make_span_region(span)}

\* a child of the tree at the place of `at` offers the replacement of `span`
SuggestionAt(span, at) ==
    \E k \in 1..Len(tree.children) :
        /\ tree.children[k].suggested_replacement = span.suggested_replacement
        /\ tree.children[k].text = None
        /\ tree.children[k].level = "help"
        /\ tree.children[k].path = make_span_path(at)
        /\ tree.children[k].span = make_span_region(at)

\* what is asked of the i-th span when its note lies at the j-th span
KeepsOwnNotes(info, i, j) ==
    /\ info.spans[i].label # None =>
           AnchoredAt(info.spans[i].label, info.level,
                      make_span_path(info.spans[j]),
                      make_span_region(info.spans[j]))
    /\ info.spans[i].suggested_replacement # None =>
           SuggestionAt(info.spans[i], info.spans[j])
    /\ info.spans[j].label # None =>
           Cardinality(LabelNotes(info.spans[j], info.level)) = 1
    /\ info.spans[j].suggested_replacement # None =>
           SuggestionAt(info.spans[j], info.spans[j])

\* C38: when the note for a span of a top-level record that cannot be shown
\* is put at a primary span of the same record, the span keeps its own label
\* and its own suggested replacement, which are added as notes at that
\* place, and the other spans of the record are still processed once each.
C38_RelocatedSpanKeepsItsNotes ==
    Collected =>
        \A i \in 1..Len(ret.info.spans), j \in 1..Len(ret.info.spans) :
            (Unlocatable(ret.info.spans[i]) /\ RelocatedOnto(ret.info, i, j))
                => KeepsOwnNotes(ret.info, i, j)

\* the same for the spans that come behind the primary span
C38_KeepsItsNotesBehindPrimary ==
    Collected =>
        \A i \in 1..Len(ret.info.spans), j \in 1..Len(ret.info.spans) :
            (Unlocatable(ret.info.spans[i]) /\ RelocatedOnto(ret.info, i, j)
             /\ j < i)
                => KeepsOwnNotes(ret.info, i, j)

-----------------------------------------------------------------------------
(* The switch that hides warnings *)

\* what the builder makes of the record of ret with the switch off
BuiltShowingWarnings ==
    _collect_rust_messages(BuilderStart(ret.info, 1), ret.info, ret.target_path,
                           ret.msg_cb,
                           [settings EXCEPT !.rust_syntax_hide_warnings = FALSE])

\* with the switch on: nothing comes of a top-level record that is no error,
\* and all that hangs under an error comes as with the switch off
HiddenOrAsShown ==
    IF ret.info.level # "error"
    THEN /\ tree = NewMessage(<<1, 0>>)
         /\ ret.n = 0
         /\ ret.cb = <<>>
    ELSE /\ tree = BuiltShowingWarnings.message
         /\ ret.cb = BuiltShowingWarnings.cb

\* C39: with rust_syntax_hide_warnings on, a top-level record whose level is
\* not error gives no Message (so no path and no batch) and no call of the
\* sink, while every note or help nested under an error is still processed
\* and reported with it.
C39_HideWarningsKeepsNotesOfErrors ==
    (/\ ret.op = "_collect_rust_messages"
     /\ settings.rust_syntax_hide_warnings
     /\ ExpectedFormat(ret.info)) => HiddenOrAsShown

\* the same for the records that place the primary Message themselves
C39_KeepsNotesUnderPlacedErrors ==
    (/\ ret.op = "_collect_rust_messages"
     /\ settings.rust_syntax_hide_warnings
     /\ (ret.info.level = "error" => TopSetsPrimary(ret.info, ret.target_path)))
        => HiddenOrAsShown

-----------------------------------------------------------------------------
(* The cursor and the batches *)

\* the cursor of the store is (-1, -1) or designates one of its batches
CursorDesignatesBatch(winfo) ==
    winfo.exists =>
        \/ winfo.batch_index = Unpositioned
        \/ winfo.batch_index \in Positions(winfo)

\* C35: in every reachable state of the store, whatever the interleaving of
\* add_rust_messages, messages_finished, the advances in both directions,
\* the soft clear and the acceptance of suggestions, the cursor is (-1, -1)
\* or a pair (p, b) with 0 <= p < number of paths and 0 <= b < number of
\* batches of the p-th path.
C35_CursorDesignatesBatch == CursorDesignatesBatch(WINDOW_MESSAGES)

\* every step but a messages_finished that changes the store keeps it so
C35_KeptByAllButTheSort ==
    [][(/\ CursorDesignatesBatch(WINDOW_MESSAGES)
        /\ ~(ret'.op = "messages_finished" /\ WINDOW_MESSAGES' # WINDOW_MESSAGES))
       => CursorDesignatesBatch(WINDOW_MESSAGES')]_vars

-----------------------------------------------------------------------------
(* Forward and back *)

\* the cursor after a forward advance followed by a backward advance
ThereAndBack(winfo, levels) ==
    show_prev_message(show_next_message(winfo, levels).winfo, levels).winfo.batch_index

\* the cursor after a backward advance followed by a forward advance
BackAndThere(winfo, levels) ==
    show_next_message(show_prev_message(winfo, levels).winfo, levels).winfo.batch_index

\* C36: on a store that does not change, from a cursor on a batch that
\* passes the filter, a forward advance followed by a backward advance with
\* the same filter ends on the same batch, and so does a backward advance
\* followed by a forward one, also when one of the two wraps around an end
\* of the store.
C36_AdvanceRoundTrip ==
    WINDOW_MESSAGES.exists =>
        \A levels \in LevelFilters :
            WINDOW_MESSAGES.batch_index \in NavigablePositions(WINDOW_MESSAGES, levels)
                => /\ ThereAndBack(WINDOW_MESSAGES, levels) = WINDOW_MESSAGES.batch_index
                   /\ BackAndThere(WINDOW_MESSAGES, levels) = WINDOW_MESSAGES.batch_index

\* a backward advance has just come back to the last of three batches that
\* pass the filter 'all', behind a batch that does not: the forward advance
\* from here wraps around the end of the store
C36_Witness ==
    /\ ret.op = "show_prev_message"
    /\ ret.levels = "all"
    /\ ret.idx = WINDOW_MESSAGES.batch_index
    /\ Cardinality(NavigablePositions(WINDOW_MESSAGES, "all")) = 3
    /\ WINDOW_MESSAGES.batch_index = LastOf(NavigablePositions(WINDOW_MESSAGES, "all"))
    /\ show_next_message(WINDOW_MESSAGES, "all").idx =
           FirstOf(NavigablePositions(WINDOW_MESSAGES, "all"))
    /\ Positions(WINDOW_MESSAGES) # NavigablePositions(WINDOW_MESSAGES, "all")

-----------------------------------------------------------------------------
(* The sort pass run twice *)

\* how often batch b stands in the list
TimesIn(batches, b) == Cardinality({i \in 1..Len(batches) : batches[i] = b})

\* `now` holds the batches of `was`, each as often as `was` does
SameBatches(was, now) ==
    /\ Len(now) = Len(was)
    /\ \A i \in 1..Len(was) : TimesIn(now, was[i]) = TimesIn(was, was[i])

\* the paths of the store as a set
PathSet(winfo) == {winfo.paths[p].path : p \in 1..Len(winfo.paths)}

\* C37: the sort pass keeps every batch under its own path, none lost and
\* none twice, and a second run on its result gives the same order of paths
\* and the same order of batches in every path as the first run.
C37_SortLosesNothingAndIsIdempotent ==
    [][SortStep =>
        /\ PathSet(WINDOW_MESSAGES') = PathSet(WINDOW_MESSAGES)
        /\ Len(WINDOW_MESSAGES'.paths) = Len(WINDOW_MESSAGES.paths)
        /\ \A p \in 1..Len(WINDOW_MESSAGES.paths) :
               SameBatches(WINDOW_MESSAGES.paths[p].batches,
                           BatchesOf(WINDOW_MESSAGES', WINDOW_MESSAGES.paths[p].path))
        /\ _sort_messages(WINDOW_MESSAGES', settings) = WINDOW_MESSAGES']_vars

\* the sort pass has run on two paths and has put a batch before one that
\* was ingested earlier under the same path, and the path ingested later
\* first
C37_Witness ==
    /\ ret.op = "messages_finished"
    /\ finished
    /\ settings.rust_sort_messages
    /\ WINDOW_MESSAGES.exists
    /\ Len(WINDOW_MESSAGES.paths) = 2
    /\ WINDOW_MESSAGES.paths[1].batches[1].children[1].id[1]
           > WINDOW_MESSAGES.paths[2].batches[1].children[1].id[1]
    /\ \E p \in 1..2 :
           /\ Len(WINDOW_MESSAGES.paths[p].batches) >= 2
           /\ WINDOW_MESSAGES.paths[p].batches[1].children[1].id[1]
                  > WINDOW_MESSAGES.paths[p].batches[2].children[1].id[1]

-----------------------------------------------------------------------------
(* cargo_config: CargoConfigBase asks the questions of `sequence` one after  *)
(* the other.  cargo_config holds RECENT_CHOICES and the fields of the       *)
(* command object: cls, _sequence, sequence_index, choices, cmd_input, the  *)
(* panel that is open, and                                                   *)
(*   env       what the items_ methods find: the number of Cargo packages,  *)
(*             whether there is a project file, and the two keys of the     *)
(*             CARGO_COMMANDS entry that selected_ methods read              *)
(*   answered  the questions make_choice was called for, in order           *)
(*   dones     the number of calls of done()                                *)
(*   written   the number of settings or project files written              *)
(*   pc        "panel", "done", or "cancelled" when a handler raised        *)
(*             CancelCommandError or the user closed the panel               *)

\* the `sequence` class variable
sequence(cls) ==
    CASE cls = "CargoSetProfile" -> <<"which", "profile">>
      [] cls = "CargoCreateNewBuild" -> <<"command">>

\* l[i:i] = next
InsertAt(l, i, next) == SubSeq(l, 1, i) \o next \o SubSeq(l, i + 1, Len(l))

\* the two-item lists of the yes/no questions of CargoCreateNewBuild
YesNoItems(q) ==
    IF q \in {"requires_view_path", "wants_run_args"}
    THEN <<"False", "True">> ELSE <<"True", "False">>

\* CargoConfigBase.items_package, lines 173-234: the single manifest of the
\* active view or the packages found; CancelCommandError when there is none
items_package(c) ==
    IF c.env.packages = 0
    THEN [raise |-> TRUE, kind |-> "items", items |-> <<>>, skip_if_one |-> FALSE]
    ELSE [raise |-> FALSE, kind |-> "items",
          items |-> IF c.env.packages = 1 THEN <<"/p">> ELSE <<"/p", "/p/sub">>,
          skip_if_one |-> TRUE]

\* the items_ method of question q: [raise, kind, items, skip_if_one]
items_(c, q) ==
    CASE q = "which" ->
             [raise |-> FALSE, kind |-> "items", skip_if_one |-> FALSE,
              items |-> <<"global_default", "project_default", "global_variant",
                          "project_variant", "project_package_default",
                          "project_package_variant", "project_package_target">>]
      [] q = "package" /\ c.cls = "CargoCreateNewBuild" ->
             IF ~items_package(c).raise /\ Len(items_package(c).items) > 1
             THEN [items_package(c) EXCEPT !.items = <<None>> \o @]
             ELSE items_package(c)
      [] q = "package" /\ c.cls # "CargoCreateNewBuild" -> items_package(c)
      [] q = "variant" ->
             [raise |-> FALSE, kind |-> "items", skip_if_one |-> FALSE,
              items |-> <<"build", "run">>]
      [] q = "target" ->
             [raise |-> FALSE, kind |-> "items", skip_if_one |-> FALSE,
              items |-> <<"--lib", "--bin x">>]
      [] q = "profile" ->
             [raise |-> FALSE, kind |-> "items", skip_if_one |-> FALSE,
              items |-> <<"dev", "release">>]
      [] q = "command" ->
             [raise |-> ~c.env.project, kind |-> "items", skip_if_one |-> FALSE,
              items |-> <<"build", "NEW_COMMAND">>]
      [] q \in {"new_command", "name"} ->
             [raise |-> FALSE, kind |-> "caption", skip_if_one |-> FALSE,
              items |-> <<>>]
      [] OTHER ->
             [raise |-> FALSE, kind |-> "items", skip_if_one |-> FALSE,
              items |-> YesNoItems(q)]

\* items_which, lines 287-291: 'which' is put into cmd_input for a caller
\* that gave 'variant' or 'target'
items_which_cmd_input(c) ==
    IF c.cmd_input["which"] # Absent THEN c.cmd_input
    ELSE IF c.cmd_input["variant"] # Absent
    THEN [c.cmd_input EXCEPT !["which"] = "project_package_variant"]
    ELSE IF c.cmd_input["target"] # Absent
    THEN [c.cmd_input EXCEPT !["which"] = "project_package_target"]
    ELSE c.cmd_input

\* whether the class has a method selected_<q>
has_selected(cls, q) ==
    \/ q = "which"
    \/ cls = "CargoCreateNewBuild" /\ q \in {"command", "package", "new_command", "name"}

\* the selected_ method of question q: [raise, next]
selected_(c, q, value) ==
    CASE q = "which" ->
             [raise |-> FALSE,
              next |-> CASE value \in {"project_variant", "global_variant"} -> <<"variant">>
                         [] value = "project_package_default" -> <<"package">>
                         [] value = "project_package_variant" -> <<"package", "variant">>
                         [] value = "project_package_target" -> <<"package", "target">>
                         [] OTHER -> <<>>]
      [] q = "command" ->
             [raise |-> FALSE,
              next |-> IF value = "NEW_COMMAND"
                       THEN <<"new_command", "allows_target", "allows_target_triple",
                              "allows_release", "allows_features", "allows_json",
                              "requires_manifest", "requires_view_path",
                              "wants_run_args", "name">>
                       ELSE IF c.env.requires_manifest THEN <<"package", "name">>
                       ELSE <<"name">>]
      [] q = "package" ->
             [raise |-> FALSE,
              next |-> IF value # None /\ c.env.allows_target THEN <<"target">>
                       ELSE <<>>]
      [] q \in {"new_command", "name"} ->
             [raise |-> value = "", next |-> <<>>]

\* the method that is implemented in the subclass: a setting is written
\* (CargoSetProfile) or the project file (CargoCreateNewBuild)
done(c) ==
    [c EXCEPT !.dones = @ + 1, !.written = @ + 1, !.pc = "done"]

RECURSIVE show_next_question(_)
RECURSIVE make_choice(_, _, _)

\* the make_choice that goes on after CancelCommandError
make_choice_after_cancel(c, q, value) ==
    IF ~has_selected(c.cls, q) \/ selected_(c, q, value).raise
    THEN show_next_question(
             [c EXCEPT !.choices[q] = value, !.answered = Append(@, q)])
    ELSE show_next_question(
             [c EXCEPT !.choices[q] = value, !.answered = Append(@, q),
                       !._sequence = InsertAt(@, c.sequence_index,
                                              selected_(c, q, value).next)])

\* lines 115-124
make_choice(c, q, value) ==
    IF ~has_selected(c.cls, q)
    THEN show_next_question(
             [c EXCEPT !.choices[q] = value, !.answered = Append(@, q)])
    ELSE IF selected_(c, q, value).raise
    THEN [c EXCEPT !.choices[q] = value, !.answered = Append(@, q),
                   !.pc = "cancelled"]
    ELSE show_next_question(
             [c EXCEPT !.choices[q] = value, !.answered = Append(@, q),
                       !._sequence = InsertAt(@, c.sequence_index,
                                              selected_(c, q, value).next)])

\* lines 136-141: the callback of the quick panel, for an index that is not -1
wrapper(c, q, chosen) ==
    make_choice([c EXCEPT !.RECENT_CHOICES[q] = chosen], q, chosen)

\* lines 126-171: the question is not answered by cmd_input
ask(c, q) ==
    IF items_(c, q).raise THEN [c EXCEPT !.pc = "cancelled"]
    ELSE IF items_(c, q).kind = "items"
    THEN IF items_(c, q).skip_if_one /\ Len(items_(c, q).items) = 1
         THEN wrapper(c, q, items_(c, q).items[1])
         ELSE [c EXCEPT !.pc = "panel",
                        !.panel = [q |-> q, kind |-> "items",
                                   items |-> items_(c, q).items]]
    ELSE [c EXCEPT !.pc = "panel",
                   !.panel = [q |-> q, kind |-> "caption", items |-> <<>>]]

\* lines 103-171
show_next_question(c) ==
    IF c.sequence_index < Len(c._sequence)
    THEN IF c.cmd_input[c._sequence[c.sequence_index + 1]] # Absent
         THEN make_choice([c EXCEPT !.sequence_index = @ + 1],
                          c._sequence[c.sequence_index + 1],
                          c.cmd_input[c._sequence[c.sequence_index + 1]])
         ELSE ask([c EXCEPT !.sequence_index = @ + 1,
                            !.cmd_input =
                                IF c._sequence[c.sequence_index + 1] = "which"
                                THEN items_which_cmd_input(c) ELSE @],
                  c._sequence[c.sequence_index + 1])
    ELSE done(c)

\* the arguments a caller passes instead of using the panels
CmdInputs(cls) ==
    IF cls = "CargoSetProfile"
    THEN {NoChoices,
          [NoChoices EXCEPT !["which"] = "global_default", !["profile"] = "release"],
          [NoChoices EXCEPT !["variant"] = "build"],
          [NoChoices EXCEPT !["which"] = "project_package_target",
                            !["target"] = "--lib"]}
    ELSE {NoChoices, [NoChoices EXCEPT !["command"] = "build"]}

\* what the items_ and selected_ methods find outside the command
Environments ==
    [packages : 0..2, project : BOOLEAN, allows_target : BOOLEAN,
     requires_manifest : BOOLEAN]

\* the texts a user enters in an input panel
Entered == {"", "fuzz"}

\* the configuration commands that are run
MaxRuns == 1

\* lines 88-96: run(**kwargs)
RunConfig ==
    \E cls \in {"CargoSetProfile", "CargoCreateNewBuild"}, env \in Environments :
        \E kwargs \in CmdInputs(cls) :
            /\ cargo_config.pc \in {"none", "done", "cancelled"}
            /\ cargo_config.runs < MaxRuns
            /\ cargo_config' = show_next_question(
                   [RECENT_CHOICES |-> cargo_config.RECENT_CHOICES,
                    runs |-> cargo_config.runs + 1, cls |-> cls, env |-> env, choices |-> NoChoices,
                    sequence_index |-> 0, _sequence |-> sequence(cls),
                    cmd_input |-> kwargs, panel |-> <<>>, answered |-> <<>>,
                    dones |-> 0, written |-> 0, pc |-> "run"])
            /\ ret' = [op |-> "run", cls |-> cls]
            /\ UNCHANGED <<WINDOW_MESSAGES, THREADS, settings, visited, finished,
                           tree, batched, cargo_build>>

\* the user picks an item of the quick panel: wrapper(index)
PickItem ==
    /\ cargo_config.pc = "panel"
    /\ cargo_config.panel.kind = "items"
    /\ \E index \in 1..Len(cargo_config.panel.items) :
           /\ cargo_config' = wrapper([cargo_config EXCEPT !.panel = <<>>],
                                      cargo_config.panel.q,
                                      cargo_config.panel.items[index])
           /\ ret' = [op |-> "wrapper", q |-> cargo_config.panel.q, index |-> index - 1]
    /\ UNCHANGED <<WINDOW_MESSAGES, THREADS, settings, visited, finished,
                   tree, batched, cargo_build>>

\* the user closes the quick panel: wrapper(-1); or the input panel, which
\* has no on_cancel
ClosePanel ==
    /\ cargo_config.pc = "panel"
    /\ cargo_config' = [cargo_config EXCEPT !.panel = <<>>, !.pc = "cancelled"]
    /\ ret' = [op |-> "wrapper", q |-> cargo_config.panel.q, index |-> -1]
    /\ UNCHANGED <<WINDOW_MESSAGES, THREADS, settings, visited, finished,
                   tree, batched, cargo_build>>

\* the user enters a text in the input panel: make_choice(text)
EnterText ==
    /\ cargo_config.pc = "panel"
    /\ cargo_config.panel.kind = "caption"
    /\ \E text \in Entered :
           /\ cargo_config' = make_choice([cargo_config EXCEPT !.panel = <<>>],
                                          cargo_config.panel.q, text)
           /\ ret' = [op |-> "make_choice", q |-> cargo_config.panel.q,
                      value |-> text]
    /\ UNCHANGED <<WINDOW_MESSAGES, THREADS, settings, visited, finished,
                   tree, batched, cargo_build>>

ConfigNext == RunConfig \/ PickItem \/ ClosePanel \/ EnterText

SpecConfig == Init /\ [][ConfigNext]_vars

\* a selected_ method raised CancelCommandError for a choice of the run, or
\* the items_ method of the question that was asked last
Raised(c) ==
    \/ \E i \in 1..Len(c.answered) :
           /\ has_selected(c.cls, c.answered[i])
           /\ selected_(c, c.answered[i], c.choices[c.answered[i]]).raise
    \/ /\ c.sequence_index = Len(c.answered) + 1
       /\ c.pc # "panel"
       /\ items_(c, c._sequence[c.sequence_index]).raise

\* C34: in one run of a configuration command done() is called at most
\* once, and only when every question of the sequence, the questions that a
\* selected_ method inserted included, has got a choice, in the order of
\* the sequence; in a run in which the user closes a panel or an items_ or
\* selected_ method raises CancelCommandError, done() is never called and
\* nothing is written.
C34_DoneOnceAfterAllQuestions ==
    /\ [](cargo_config.pc # "none" =>
            /\ cargo_config.dones <= 1
            /\ cargo_config.written = cargo_config.dones
            /\ cargo_config.dones = 1 =>
                   /\ cargo_config.answered = cargo_config._sequence
                   /\ \A i \in 1..Len(cargo_config._sequence) :
                          cargo_config.choices[cargo_config._sequence[i]] # Absent
            /\ (cargo_config.pc = "cancelled" \/ Raised(cargo_config)) =>
                   cargo_config.dones = 0 /\ cargo_config.written = 0)
    /\ [][(cargo_config.pc = "cancelled" /\ ret'.op # "run") =>
              cargo_config' = cargo_config]_vars

\* done() was called in a run in which selected_which had inserted two
\* questions, one answered by the caller and one by the user
C34_Witness ==
    /\ cargo_config.pc = "done"
    /\ cargo_config.dones = 1
    /\ cargo_config._sequence = <<"which", "package", "target", "profile">>
    /\ cargo_config.cmd_input["target"] # Absent
    /\ cargo_config.env.packages = 2
    /\ ret.op = "wrapper"

\* a run ended by a selected_ method that raised CancelCommandError: the
\* name entered for the new build was empty
C34_WitnessCancelled ==
    /\ cargo_config.pc = "cancelled"
    /\ ret.op = "make_choice"
    /\ ret.q = "name"
    /\ Len(cargo_config.answered) >= 10

-----------------------------------------------------------------------------
(* cargo_build: CargoExecCommand asks for extra arguments.  cargo_build     *)
(* holds LAST_EXTRA_ARGS and the fields of the command object:              *)
(* command_name, command_info, initial_settings['extra_run_args'], the text *)
(* the input panel was opened with, and                                     *)
(*   entered   per command name, the text the user entered last in a panel  *)
(*             that this command opened                                      *)
(*   started   the number of CargoExecThreads started by _run               *)
(*   pc        "panel", "running", "KeyError", or "none"                    *)

\* the texts a user enters as extra arguments
ExtraArgs == {"-v", "--all"}

\* the build commands that are run
MaxExecs == 3

\* dict.update for the two keys: the keys of b replace those of a
update(a, b) ==
    [command |-> IF b.command # Absent THEN b.command ELSE a.command,
     wants_run_args |-> IF b.wants_run_args # Absent THEN b.wants_run_args
                        ELSE a.wants_run_args]

\* what CARGO_COMMANDS.get(command, {}) may give: nothing for a command that
\* cargo_settings does not define, else an entry
StockInfos(command) ==
    IF command = "fuzz" THEN {NoInfo}
    ELSE {CommandInfo(command, w) : w \in {Absent, "True"}}

\* the command_info argument: none; the one CargoCreateNewBuild.done writes
\* for a stock command ({}) or for NEW_COMMAND (the answers, no 'command');
\* one written by hand
CommandInfoArgs(command) ==
    IF command = "fuzz"
    THEN {CommandInfo(Absent, "True"), CommandInfo(Absent, "False"),
          CommandInfo("fuzz", "True"), CommandInfo("run", "True")}
    ELSE {NoInfo}

\* LAST_EXTRA_ARGS.get(k, '')
get_last(d, k) == IF d[k] = Absent THEN "" ELSE d[k]

\* cargo_build.py:166-172
_run(c) == [c EXCEPT !.started = @ + 1, !.pc = "running", !.panel = Absent]

\* cargo_build.py:153-160
_run_check_for_args(c) ==
    IF c.command_info.wants_run_args = "True" /\ c.extra_run_args = ""
    THEN [c EXCEPT !.pc = "panel",
                   !.panel = get_last(c.LAST_EXTRA_ARGS, c.command_name)]
    ELSE _run(c)

\* cargo_build.py:162-165
_on_extra_args(c, args) ==
    IF c.command_info.command = Absent
    THEN [c EXCEPT !.pc = "KeyError", !.panel = Absent,
                   !.entered[c.command_name] = args]
    ELSE _run([c EXCEPT !.LAST_EXTRA_ARGS[c.command_info.command] = args,
                        !.extra_run_args = args,
                        !.entered[c.command_name] = args])

\* cargo_build.py:45-60: run(command, command_info, settings), and
\* _determine_working_path, which calls on_done or ends the command
Exec ==
    \E command \in Commands, extra \in {""} \cup ExtraArgs, path \in BOOLEAN :
        \E stock \in StockInfos(command), info \in CommandInfoArgs(command) :
            /\ cargo_build.pc # "panel"
            /\ cargo_build.runs < MaxExecs
            /\ cargo_build' =
                   IF path
                   THEN _run_check_for_args(
                            [cargo_build EXCEPT !.command_name = command,
                                                !.command_info = update(stock, info),
                                                !.extra_run_args = extra,
                                                !.runs = @ + 1])
                   ELSE [cargo_build EXCEPT !.command_name = command,
                                            !.command_info = update(stock, info),
                                            !.extra_run_args = extra,
                                            !.runs = @ + 1, !.pc = "none"]
            /\ ret' = [op |-> "cargo_exec", command |-> command]
            /\ UNCHANGED <<WINDOW_MESSAGES, THREADS, settings, visited, finished,
                           tree, batched, cargo_config>>

\* the user enters the extra arguments: _on_extra_args(args)
EnterArgs ==
    /\ cargo_build.pc = "panel"
    /\ \E args \in ExtraArgs :
           /\ cargo_build' = _on_extra_args(cargo_build, args)
           /\ ret' = [op |-> "_on_extra_args", args |-> args]
    /\ UNCHANGED <<WINDOW_MESSAGES, THREADS, settings, visited, finished,
                   tree, batched, cargo_config>>

\* the user closes the input panel, which has no on_cancel
CloseArgs ==
    /\ cargo_build.pc = "panel"
    /\ cargo_build' = [cargo_build EXCEPT !.pc = "none", !.panel = Absent]
    /\ ret' = [op |-> "on_cancel"]
    /\ UNCHANGED <<WINDOW_MESSAGES, THREADS, settings, visited, finished,
                   tree, batched, cargo_config>>

ExecNext == Exec \/ EnterArgs \/ CloseArgs

SpecExec == Init /\ [][ExecNext]_vars

\* C40: the extra arguments are remembered per command: storing them never
\* fails, and the panel that a command opens holds the text that the user
\* entered the last time this command asked ('' when it never did).
C40_ArgsRememberedPerCommand ==
    /\ cargo_build.pc # "KeyError"
    /\ cargo_build.pc = "panel" =>
           cargo_build.panel = get_last(cargo_build.entered, cargo_build.command_name)

\* what the code does keep: the panel holds LAST_EXTRA_ARGS of the name of
\* the command, and a text entered for a command_info that has a 'command'
\* is stored under that 'command', which is the name of the command for the
\* commands of cargo_settings
C40_StoredUnderInfoCommand ==
    [][/\ cargo_build'.pc = "panel" =>
              cargo_build'.panel = get_last(cargo_build.LAST_EXTRA_ARGS,
                                            cargo_build'.command_name)
       /\ (ret'.op = "_on_extra_args" /\ cargo_build.command_info.command # Absent) =>
              /\ cargo_build'.pc = "running"
              /\ cargo_build'.LAST_EXTRA_ARGS[cargo_build.command_info.command]
                     = ret'.args
              /\ cargo_build'.started = cargo_build.started + 1]_vars

\* the arguments entered for a stock command are in the panel the next time
C40_WitnessRemembered ==
    /\ cargo_build.pc = "panel"
    /\ cargo_build.command_name = "script"
    /\ cargo_build.panel = "--all"
    /\ cargo_build.entered["script"] = "--all"

====
